---- MODULE Spec2Model ----
(***************************************************************************)
(* A model of discorder: the SQLite corpus store (src/storage/db.js), the  *)
(* history importer with its rate limiter and bounded task runner          *)
(* (src/history/index.js) and the live listener (src/listener/index.js).   *)
(*                                                                         *)
(* The module holds several specifications over one set of variables; each *)
(* specification moves its own group of variables and leaves the others    *)
(* at their initial values:                                                *)
(*   SpecStore    the upsert family and the search index                   *)
(*   SpecLimiter  createRateLimiter / acquire under concurrent callers     *)
(*   SpecPMap     parallelMap                                              *)
(*   SpecImport   importChannel runs against a remote channel              *)
(*   SpecHistory  importHistory over the guilds of a remote                *)
(***************************************************************************)
EXTENDS Integers, Sequences, FiniteSets, TLC

VARIABLES
    db,        \* the store: tables of src/storage/db.js
    now,       \* the store's clock, datetime('now')
    clock,     \* SpecLimiter: Date.now()
    next,      \* SpecLimiter: the limiter's closure variable `next`
    callers,   \* SpecLimiter: each caller's position inside acquire()
    grants,    \* SpecLimiter: the times at which acquire() returned (history)
    pm,        \* SpecPMap: the state of one parallelMap call
    remote,    \* SpecImport: the messages the external source holds
    imp,       \* SpecImport: the state of the importChannel call in progress
    runs,      \* SpecImport: completed runs and what they observed (history)
    hist,      \* SpecHistory: the position and locals of importHistory
    tasks,     \* SpecHistory: the workers parallelMap has started
    calls,     \* SpecHistory: the calls made to the external source (history)
    qry,       \* SpecQuery: the last query made and what it returned
    handle,    \* SpecHandle: the module variable `_db` of src/storage/db.js
    files,     \* SpecHandle: the paths at which a database file exists
    log        \* SpecHandle: the calls made and what they returned (history)

storeVars   == <<db, now>>
limiterVars == <<clock, next, callers, grants>>
pmapVars    == <<pm>>
importVars  == <<remote, imp, runs>>
historyVars == <<hist, tasks, calls>>
queryVars   == <<qry>>
handleVars  == <<handle, files, log>>
vars == <<db, now, clock, next, callers, grants, pm, remote, imp, runs,
          hist, tasks, calls, qry, handle, files, log>>

-----------------------------------------------------------------------------
(* Values                                                                  *)

\* JavaScript null / undefined and SQL NULL. Ids, timestamps and names are
\* positive naturals, so 0 never collides with a value.
Null == 0

\* The empty string '' the upserts and the triggers use as a default.
Empty == -1

\* a ?? b
\* No query has been made.
NoQuery == [op |-> "none"]

Coalesce(a, b) == IF a # Null THEN a ELSE b

Max(a, b) == IF a >= b THEN a ELSE b
Min(a, b) == IF a <= b THEN a ELSE b

\* The set of elements of a sequence.
Range(s) == {s[i] : i \in 1..Len(s)}

-----------------------------------------------------------------------------
(* The store: schema                                                       *)

\* The state after migrate(): every table empty. `messages` is the rowid
\* ordered list of rows of the messages table (no row is ever deleted, so
\* the rowid of a row is its position); `fts` is the list of entries the
\* triggers wrote into messages_fts; the other tables are keyed by their
\* primary key.
EmptyDb ==
    [ messages |-> <<>>,
      fts      |-> <<>>,
      users    |-> <<>>,
      channels |-> <<>>,
      cursors  |-> <<>>,
      pins     |-> <<>>,
      guilds   |-> <<>>,
      members  |-> <<>>,
      roles    |-> <<>>,
      emoji    |-> <<>> ]

\* Mutant of Put: the write replaces the table by the one row.
Put_Replace(table, key, row) == key :> row

\* A table keyed by primary key is a function from the keys present to rows.
\* (<<>> is the function with the empty domain.)
Put(table, key, row) ==
    (key :> row) @@ table

Has(table, key) == key \in DOMAIN table

\* The element of a singleton: Only({e : x \in {v}}) is e with x naming
\* the value v, v being computed once.
Only(S) == CHOOSE x \in S : TRUE

-----------------------------------------------------------------------------
(* The store: upsert helpers                                               *)

\* upsertUser: INSERT ... ON CONFLICT(id) DO UPDATE of every column.
upsertUser(d, user, t) ==
    [d EXCEPT !.users = Put(@, user.id,
        [ id           |-> user.id,
          username     |-> Coalesce(user.username, Empty),
          display_name |-> Coalesce(user.displayName, Empty),
          updated_at   |-> t ])]

\* upsertChannel: INSERT ... ON CONFLICT(id) DO UPDATE of every column.
upsertChannel(d, ch, t) ==
    [d EXCEPT !.channels = Put(@, ch.id,
        [ id         |-> ch.id,
          guild_id   |-> ch.guildId,
          name       |-> ch.name,
          type       |-> ch.type,
          parent_id  |-> ch.parentId,
          updated_at |-> t ])]

\* upsertGuild: INSERT ... ON CONFLICT(id) DO UPDATE of every column.
upsertGuild(d, guild, t) ==
    [d EXCEPT !.guilds = Put(@, guild.id,
        [ id         |-> guild.id,
          name       |-> Coalesce(guild.name, Empty),
          updated_at |-> t ])]

\* upsertMember: INSERT ... ON CONFLICT(guild_id, user_id) DO UPDATE.
upsertMember(d, guildId, member, t) ==
    [d EXCEPT !.members = Put(@, <<guildId, member.user.id>>,
        [ guild_id   |-> guildId,
          user_id    |-> member.user.id,
          nickname   |-> Coalesce(member.nickname, Empty),
          updated_at |-> t ])]

\* upsertRole: INSERT ... ON CONFLICT(id) DO UPDATE; guild_id is written
\* by the insert only.
upsertRole(d, guildId, role, t) ==
    [d EXCEPT !.roles = Put(@, role.id,
        [ id         |-> role.id,
          guild_id   |-> IF Has(@, role.id) THEN @[role.id].guild_id ELSE guildId,
          name       |-> Coalesce(role.name, Empty),
          updated_at |-> t ])]

\* upsertEmoji: INSERT ... ON CONFLICT(id) DO UPDATE; guild_id is written
\* by the insert only.
upsertEmoji(d, guildId, emoji, t) ==
    [d EXCEPT !.emoji = Put(@, emoji.id,
        [ id         |-> emoji.id,
          guild_id   |-> IF Has(@, emoji.id) THEN @[emoji.id].guild_id ELSE guildId,
          name       |-> Coalesce(emoji.name, Empty),
          updated_at |-> t ])]

\* A message object without an author carries NoUser: `msg.author` is
\* undefined, so `msg.author?.id ?? msg.author_id ?? null` is null.
NoUser == [id |-> Null, username |-> Null, displayName |-> Null]

\* if (msg.author)
HasAuthor(msg) == msg.author.id # Null

\* The parameter object upsertMessage binds: the column values extracted
\* from the message object, with the code's defaults.
MessageParams(msg, channelId, guildId) ==
    [ id           |-> msg.id,
      channel_id   |-> Coalesce(channelId, msg.channelId),
      guild_id     |-> Coalesce(guildId, msg.guildId),
      author_id    |-> msg.author.id,
      content      |-> msg.content,
      thread_id    |-> msg.thread_id,
      reference_id |-> msg.reference_id,
      reply_count  |-> msg.reply_count,
      reactions    |-> msg.reactions,
      attachments  |-> msg.attachments,
      embeds       |-> msg.embeds,
      created_at   |-> msg.created_at,
      edited_at    |-> msg.edited_at ]

\* The rowids of the rows of the messages table that carry this id.
RowsOf(d, id) == {i \in 1..Len(d.messages) : d.messages[i].id = id}

\* COALESCE((SELECT display_name FROM users WHERE id = author_id),
\*          (SELECT username FROM users WHERE id = author_id), '')
ResolvedUserName(d, authorId) ==
    IF Has(d.users, authorId)
    THEN Coalesce(d.users[authorId].display_name,
                  Coalesce(d.users[authorId].username, Empty))
    ELSE Empty

\* COALESCE((SELECT name FROM channels WHERE id = channel_id), '')
ResolvedChannelName(d, channelId) ==
    IF Has(d.channels, channelId)
    THEN Coalesce(d.channels[channelId].name, Empty)
    ELSE Empty

\* Trigger messages_ai, AFTER INSERT ON messages: index the new row's
\* content with the author and channel names as the tables resolve them at
\* that moment.
messages_ai(d, rowid) ==
    Only({ [d EXCEPT !.fts = Append(@,
              [ rowid        |-> rowid,
                content_text |-> new.content,
                user_name    |-> ResolvedUserName(d, new.author_id),
                channel_name |-> ResolvedChannelName(d, new.channel_id) ])]
           : new \in {d.messages[rowid]} })

\* Mutant of ConflictUpdate: the conflict branch also overwrites created_at.
ConflictUpdate_CreatedAt(old, p) ==
    [old EXCEPT !.content     = p.content,
                !.reply_count = p.reply_count,
                !.reactions   = p.reactions,
                !.attachments = p.attachments,
                !.embeds      = p.embeds,
                !.edited_at   = p.edited_at,
                !.created_at  = p.created_at]

\* Mutant of ConflictUpdate: the conflict branch also overwrites thread_id.
ConflictUpdate_ThreadId(old, p) ==
    [old EXCEPT !.content     = p.content,
                !.thread_id   = p.thread_id,
                !.reply_count = p.reply_count,
                !.reactions   = p.reactions,
                !.attachments = p.attachments,
                !.embeds      = p.embeds,
                !.edited_at   = p.edited_at]

\* ON CONFLICT(id) DO UPDATE SET content, reply_count, reactions,
\* attachments, embeds, raw, edited_at = excluded.*: the columns the
\* conflict branch of upsertMessage overwrites. An UPDATE fires neither the
\* AFTER INSERT nor the AFTER DELETE trigger, so messages_fts is not touched.
ConflictUpdate(old, p) ==
    [old EXCEPT !.content     = p.content,
                !.reply_count = p.reply_count,
                !.reactions   = p.reactions,
                !.attachments = p.attachments,
                !.embeds      = p.embeds,
                !.edited_at   = p.edited_at]

\* The row a plain INSERT writes: the bound parameters plus the column
\* default imported_at = datetime('now').
InsertedRow(p, t) ==
    [ id           |-> p.id,
      channel_id   |-> p.channel_id,
      guild_id     |-> p.guild_id,
      author_id    |-> p.author_id,
      content      |-> p.content,
      thread_id    |-> p.thread_id,
      reference_id |-> p.reference_id,
      reply_count  |-> p.reply_count,
      reactions    |-> p.reactions,
      attachments  |-> p.attachments,
      embeds       |-> p.embeds,
      created_at   |-> p.created_at,
      edited_at    |-> p.edited_at,
      imported_at  |-> t ]

\* Mutant of upsertMessage: the conflict branch indexes the row again, as
\* an insert does.
upsertMessage_Reindex(d, msg, channelId, guildId, t) ==
    Only({ Only({
        IF hit = {}
        THEN Only({ messages_ai(inserted, Len(d.messages) + 1)
                    : inserted \in {[d EXCEPT !.messages = Append(@, InsertedRow(p, t))]} })
        ELSE Only({ messages_ai(updated, CHOOSE i \in hit : TRUE)
                    : updated \in {[d EXCEPT !.messages[CHOOSE i \in hit : TRUE] =
                                                ConflictUpdate(@, p)]} })
        : hit \in {RowsOf(d, p.id)} })
        : p \in {MessageParams(msg, channelId, guildId)} })

\* upsertMessage(db, msg, channelId, guildId)
upsertMessage(d, msg, channelId, guildId, t) ==
    Only({ Only({
        IF hit = {}
        THEN Only({ messages_ai(inserted, Len(d.messages) + 1)
                    : inserted \in {[d EXCEPT !.messages = Append(@, InsertedRow(p, t))]} })
        ELSE [d EXCEPT !.messages[CHOOSE i \in hit : TRUE] = ConflictUpdate(@, p)]
        : hit \in {RowsOf(d, p.id)} })
        : p \in {MessageParams(msg, channelId, guildId)} })

\* upsertPin: INSERT ... ON CONFLICT(message_id) DO UPDATE SET pinned_at.
upsertPin(d, msg, channelId, guildId) ==
    [d EXCEPT !.pins = Put(@, msg.id,
        IF Has(@, msg.id)
        THEN [@[msg.id] EXCEPT !.pinned_at = msg.pinned_at]
        ELSE [ message_id |-> msg.id,
               channel_id |-> channelId,
               guild_id   |-> guildId,
               pinned_at  |-> msg.pinned_at ])]

\* getImportCursor: latest_id of the channel's cursor row, or null.
getImportCursor(d, channelId) ==
    IF Has(d.cursors, channelId) THEN d.cursors[channelId].latest_id ELSE Null

\* Mutant of setImportCursor: ON CONFLICT DO NOTHING, the first cursor of
\* a channel stays.
setImportCursor_KeepFirst(d, channelId, latestId, t) ==
    IF Has(d.cursors, channelId) THEN d
    ELSE [d EXCEPT !.cursors = Put(@, channelId,
            [ channel_id |-> channelId,
              latest_id  |-> latestId,
              updated_at |-> t ])]

\* setImportCursor: INSERT ... ON CONFLICT(channel_id) DO UPDATE SET
\* latest_id, updated_at.
setImportCursor(d, channelId, latestId, t) ==
    [d EXCEPT !.cursors = Put(@, channelId,
        [ channel_id |-> channelId,
          latest_id  |-> latestId,
          updated_at |-> t ])]

-----------------------------------------------------------------------------
(* The store: queries                                                      *)

\* messages_fts MATCH "t1" OR "t2" ...: the rowids of the index entries in
\* which one of the tokens occurs, in the content column or as a name.
MatchRowids(d, tokens) ==
    {d.fts[i].rowid : i \in {j \in 1..Len(d.fts) :
        \/ d.fts[j].content_text \cap tokens # {}
        \/ d.fts[j].user_name \in tokens
        \/ d.fts[j].channel_name \in tokens}}

\* searchMessages without filters: FROM messages_fts JOIN messages m ON
\* m.rowid = messages_fts.rowid WHERE messages_fts MATCH @query. An empty
\* token list returns [] before the index is queried.
searchMessages(d, tokens) ==
    IF tokens = {} THEN {}
    ELSE {d.messages[r] : r \in MatchRowids(d, tokens) \cap 1..Len(d.messages)}

\* The ids of the messages a search returns.
SearchIds(d, tokens) == {m.id : m \in searchMessages(d, tokens)}

\* SELECT COUNT(*) FROM messages
MessageCount(d) == Len(d.messages)

\* The number of rows of the search index.
FtsCount(d) == Len(d.fts)

\* The stored row of a message id (the id is stored).
RowOf(d, id) == d.messages[CHOOSE i \in RowsOf(d, id) : TRUE]

StoredIds(d) == {d.messages[i].id : i \in 1..Len(d.messages)}

-----------------------------------------------------------------------------
(* The writers of messages                                                 *)

\* importChannel, the body of the loop inside db.transaction: upsertMessage
\* with the imported channel's id, then upsertUser of the author if the
\* message has one.
PersistMessage(d, msg, channelId, guildId, t) ==
    Only({ IF HasAuthor(msg) THEN upsertUser(d1, msg.author, t) ELSE d1
           : d1 \in {upsertMessage(d, msg, channelId, guildId, t)} })

\* for (const msg of msgArray) ...: the store before the loop and after
\* each of its iterations, in order. (The loop over the first half of
\* the array, then the loop over the rest from the store that one left.)
RECURSIVE PersistSteps(_, _, _, _, _)
PersistSteps(d, msgArray, channelId, guildId, t) ==
    IF msgArray = <<>> THEN <<d>>
    ELSE IF Len(msgArray) = 1
    THEN <<d, PersistMessage(d, msgArray[1], channelId, guildId, t)>>
    ELSE LET n    == Len(msgArray)
             half == n \div 2
         IN  Only({ Only({ Only({
                 first \o Tail(PersistSteps(mid, rest, channelId, guildId, t))
                 : mid \in {first[half + 1]} })
                 : first \in {PersistSteps(d, head, channelId, guildId, t)} })
                 : head \in {SubSeq(msgArray, 1, half)},
                   rest \in {SubSeq(msgArray, half + 1, n)} })

\* The store after the whole loop.
PersistPage(d, msgArray, channelId, guildId, t) ==
    PersistSteps(d, msgArray, channelId, guildId, t)[Len(msgArray) + 1]

\* importPins, the body of db.transaction: for each pinned message,
\* upsertMessage, upsertPin, then upsertUser of its author.
RECURSIVE PersistPins(_, _, _, _, _)
PersistPins(d, pinned, channelId, guildId, t) ==
    IF pinned = <<>> THEN d
    ELSE Only({ Only({ Only({ Only({
             PersistPins(d3, Tail(pinned), channelId, guildId, t)
             : d3 \in {IF HasAuthor(msg) THEN upsertUser(d2, msg.author, t) ELSE d2} })
             : d2 \in {upsertPin(d1, msg, channelId, guildId)} })
             : d1 \in {upsertMessage(d, msg, channelId, guildId, t)} })
             : msg \in {Head(pinned)} })

\* Listener, Events.MessageCreate: upsertUser of the author, then
\* upsertMessage with the message's own channel and guild id.
OnMessageCreate(d, message, t) ==
    LET d1 == IF HasAuthor(message) THEN upsertUser(d, message.author, t) ELSE d
    IN  upsertMessage(d1, message, message.channelId, message.guildId, t)

\* Listener, Events.MessageUpdate (and the reaction handlers): upsertMessage
\* of the new version of the message.
OnMessageUpdate(d, newMsg, t) ==
    upsertMessage(d, newMsg, newMsg.channelId, newMsg.guildId, t)

-----------------------------------------------------------------------------
(* SpecStore: the writers applied to message objects drawn from small sets *)

\* Each remote message exists in the versions 0..MaxVersion (its edits).
MaxVersion == 1

\* The writers act on one row per id; two ids give pages of two messages
\* and both insertion orders.
MsgIds   == {1, 2}
Versions == 0..MaxVersion
\* The two shapes of the fields that upsertMessage writes on insert only.
Variants == {0, 1}

\* A user object as the source hands it over.
UserObj(u) == [id |-> u, username |-> 100 + u, displayName |-> 200 + u]

\* A channel object as the source hands it over.
ChannelObj(c) ==
    [id |-> c, guildId |-> 1, name |-> 300 + c, type |-> 0, parentId |-> Null]

\* The words of version v of a message: one word only this version has, one
\* it shares with the next version.
ContentOf(v) == {v + 1, v + 2}

\* The message object of id `id` in version v (the fields an edit changes)
\* and variant k (the fields an edit does not change).
RemoteMsg(id, v, k) ==
    [ id           |-> id,
      channelId    |-> 1 + k,
      guildId      |-> 1 + k,
      author       |-> UserObj(1 + k),
      content      |-> ContentOf(v),
      thread_id    |-> IF k = 0 THEN Null ELSE 7,
      reference_id |-> IF k = 0 THEN Null ELSE 8,
      reply_count  |-> v,
      reactions    |-> IF v = 0 THEN Null ELSE v,
      attachments  |-> IF v = 0 THEN Null ELSE 10 + v,
      embeds       |-> IF v = 0 THEN Null ELSE 20 + v,
      created_at   |-> 1 + k,
      edited_at    |-> IF v = 0 THEN Null ELSE v,
      pinned_at    |-> 5 ]

\* The pages the source can return: distinct ids, newest (greatest) first,
\* all of one channel (one variant), each message in any version.
StorePages ==
    {<<RemoteMsg(i, v, k)>> : i \in MsgIds, v \in Versions, k \in Variants}
    \cup UNION {{<<RemoteMsg(i, v, k), RemoteMsg(j, w, k)>> :
                    j \in {x \in MsgIds : x < i}, v \in Versions, w \in Versions,
                    k \in Variants} : i \in MsgIds}

\* What the idempotence claims compare: the row count, every message's
\* content and the row count of the search index.
Summary(d) ==
    [ count    |-> MessageCount(d),
      contents |-> {<<d.messages[i].id, d.messages[i].content>> : i \in 1..Len(d.messages)},
      fts      |-> FtsCount(d) ]

\* The store before the first write: the schema, and the channels the
\* guild sync has stored.
StoreInitDb == upsertChannel(upsertChannel(EmptyDb, ChannelObj(1), 1), ChannelObj(2), 1)

\* importChannel persists a fetched page.
StoreImportPage ==
    \E page \in StorePages :
        LET d2 == PersistPage(db, page, page[1].channelId, page[1].guildId, now)
        IN  /\ db' = d2
            /\ UNCHANGED <<now, limiterVars, pmapVars, importVars, historyVars, queryVars, handleVars>>

\* importPins persists the pinned messages of a channel.
StoreImportPins ==
    \E page \in StorePages :
        LET d2 == PersistPins(db, page, page[1].channelId, page[1].guildId, now)
        IN  /\ db' = d2
            /\ UNCHANGED <<now, limiterVars, pmapVars, importVars, historyVars, queryVars, handleVars>>

\* The listener receives a new message.
StoreMessageCreate ==
    \E i \in MsgIds, v \in Versions, k \in Variants :
        LET d2 == OnMessageCreate(db, RemoteMsg(i, v, k), now)
        IN  /\ db' = d2
            /\ UNCHANGED <<now, limiterVars, pmapVars, importVars, historyVars, queryVars, handleVars>>

\* The listener receives an edit or a reaction change.
StoreMessageUpdate ==
    \E i \in MsgIds, v \in Versions, k \in Variants :
        LET d2 == OnMessageUpdate(db, RemoteMsg(i, v, k), now)
        IN  /\ db' = d2
            /\ UNCHANGED <<now, limiterVars, pmapVars, importVars, historyVars, queryVars, handleVars>>

StoreInit ==
    /\ handle = Null /\ files = {} /\ log = <<>>
    /\ db = StoreInitDb
    /\ now = 1
    /\ clock = 0 /\ next = 0 /\ callers = <<>> /\ grants = <<>>
    /\ pm = <<>>
    /\ remote = <<>> /\ imp = <<>> /\ runs = <<>>
    /\ hist = <<>> /\ tasks = <<>> /\ calls = {} /\ qry = NoQuery

StoreNext ==
    \/ StoreImportPage
    \/ StoreImportPins
    \/ StoreMessageCreate
    \/ StoreMessageUpdate

SpecStore == StoreInit /\ [][StoreNext]_vars

-----------------------------------------------------------------------------
(* SpecStore: claims                                                       *)

\* The message objects a step of SpecStore wrote: the step is a page
\* import, a pin backfill, a MessageCreate or a MessageUpdate of this input.
StoreWrote(page) ==
    \/ db' = PersistPage(db, page, page[1].channelId, page[1].guildId, now)
    \/ db' = PersistPins(db, page, page[1].channelId, page[1].guildId, now)
    \/ Len(page) = 1 /\ db' = OnMessageCreate(db, page[1], now)
    \/ Len(page) = 1 /\ db' = OnMessageUpdate(db, page[1], now)

\* The row of msg.id after the step carries the mutable fields of msg.
MutableFieldsFrom(row, msg) ==
    /\ row.content     = msg.content
    /\ row.reactions   = msg.reactions
    /\ row.attachments = msg.attachments
    /\ row.embeds      = msg.embeds
    /\ row.edited_at   = msg.edited_at
    /\ row.reply_count = msg.reply_count

\* The stores the writers produce from store d and this input: a page
\* import, a pin backfill and, for a single message, the listener's
\* MessageCreate and MessageUpdate.
WritesOf(d, page) ==
    {PersistPage(d, page, page[1].channelId, page[1].guildId, now),
     PersistPins(d, page, page[1].channelId, page[1].guildId, now)}
    \cup (IF Len(page) = 1
          THEN {OnMessageCreate(d, page[1], now), OnMessageUpdate(d, page[1], now)}
          ELSE {})

\* C1: under any sequence of upsertMessage calls by the importer, the pin
\* backfill and the listener the store holds exactly one row per message
\* id, and a further write keeps it so: a write of an id that is already
\* stored replaces content, reactions, attachments, embeds, edited_at and
\* reply_count by the new values and leaves created_at at the value of the
\* first insert.
C1_OneRowPerId ==
    /\ \A i \in StoredIds(db) : Cardinality(RowsOf(db, i)) = 1
    /\ \A page \in StorePages : \A d2 \in WritesOf(db, page) :
        /\ Len(d2.messages) = Cardinality(StoredIds(db) \cup {page[n].id : n \in 1..Len(page)})
        /\ \A n \in 1..Len(page) :
            LET msg == page[n]
            IN  /\ Cardinality(RowsOf(d2, msg.id)) = 1
                /\ MutableFieldsFrom(RowOf(d2, msg.id), msg)
                /\ RowOf(d2, msg.id).created_at =
                     IF msg.id \in StoredIds(db)
                     THEN RowOf(db, msg.id).created_at
                     ELSE msg.created_at

\* The index entry of a row still holds other words than the row: the row
\* was inserted and later written again with another content.
Rewritten(d, i) ==
    /\ i \in StoredIds(d)
    /\ \E j \in 1..Len(d.fts) :
          /\ d.fts[j].rowid \in RowsOf(d, i)
          /\ d.fts[j].content_text # RowOf(d, i).content

\* C1 witness: a stored message was written again in an edited version.
C1_Witness ==
    \E i \in MsgIds : Rewritten(db, i) /\ RowOf(db, i).edited_at # Null

\* C2: after an existing message is written again with changed content and
\* edited_at, a search for a word that only the new content has returns the
\* message, a search for a word that only the old content had does not, and
\* created_at is as before.
C2_IndexFollowsEdit ==
    [][\A page \in StorePages :
        StoreWrote(page) =>
            \A n \in 1..Len(page) :
                LET msg == page[n]
                    old == RowOf(db, msg.id)
                IN  (/\ msg.id \in StoredIds(db)
                     /\ old.content # msg.content
                     /\ old.edited_at # msg.edited_at)
                    => /\ \A w \in msg.content \ old.content :
                             msg.id \in SearchIds(db', {w})
                       /\ \A w \in old.content \ msg.content :
                             msg.id \notin SearchIds(db', {w})
                       /\ RowOf(db', msg.id).created_at = old.created_at]_vars

\* C8: ingesting the same page a second time leaves the row count, every
\* message's content and the row count of the search index as they were
\* after the first ingestion.
C8_PageTwice ==
    \A page \in StorePages :
    \A once \in {PersistPage(db, page, page[1].channelId, page[1].guildId, now)} :
    \A twice \in {PersistPage(once, page, page[1].channelId, page[1].guildId, now)} :
        Summary(twice) = Summary(once)

\* C8 witness: a page of two messages is stored as ingested, and ingesting
\* it again has the summary of the store unchanged.
C8_Witness ==
    \E page \in StorePages :
        /\ Len(page) = 2
        /\ \A n \in 1..2 :
              /\ page[n].id \in StoredIds(db)
              /\ RowOf(db, page[n].id).content = page[n].content
        /\ Summary(PersistPage(db, page, page[1].channelId, page[1].guildId, now))
             = Summary(db)

-----------------------------------------------------------------------------
(* SpecLimiter: createRateLimiter(intervalMs) and its acquire()            *)

\* The intervalMs the limiter is created with, in clock ticks.
Interval == 2
\* The callers that share the limiter (the workers of parallelMap).
NumCallers == 2
\* The run is cut off after this many acquire() calls and at this time.
MaxCalls == 4
MaxClock == 6

Callers == 1..NumCallers

\* A caller outside acquire().
Outside == [pc |-> "outside", wakeAt |-> 0, calledAt |-> 0]

\* let next = Date.now(): the limiter is created at time 0.
LimiterInit ==
    /\ handle = Null /\ files = {} /\ log = <<>>
    /\ clock = 0
    /\ next = 0
    /\ callers = [c \in Callers |-> Outside]
    /\ grants = <<>>
    /\ db = EmptyDb /\ now = 0
    /\ pm = <<>>
    /\ remote = <<>> /\ imp = <<>> /\ runs = <<>>
    /\ hist = <<>> /\ tasks = <<>> /\ calls = {} /\ qry = NoQuery

\* The number of acquire() calls made so far.
Calls == Len(grants) + Cardinality({c \in Callers : callers[c].pc = "sleeping"})

\* next = Math.max(Date.now(), next) + intervalMs: the last statement of
\* acquire(); the call returns (the grant) at the present time.
Grant(c, calledAt) ==
    /\ next' = Max(clock, next) + Interval
    /\ grants' = Append(grants, [caller |-> c, at |-> clock, calledAt |-> calledAt])
    /\ callers' = [callers EXCEPT ![c] = Outside]

\* A caller calls acquire(): const now = Date.now(); if (now < next) it
\* awaits sleep(next - now), a timer due at `next` as it is at this moment;
\* otherwise it runs to the end of acquire() without yielding.
AcquireCall(c) ==
    /\ callers[c].pc = "outside"
    /\ Calls < MaxCalls
    /\ IF clock < next
       THEN /\ callers' = [callers EXCEPT ![c] =
                  [pc |-> "sleeping", wakeAt |-> next, calledAt |-> clock]]
            /\ UNCHANGED <<next, grants>>
       ELSE Grant(c, clock)
    /\ UNCHANGED <<clock, storeVars, pmapVars, importVars, historyVars, queryVars, handleVars>>

\* The timer of a sleeping caller fires, at its due time or later, and the
\* caller runs the rest of acquire().
AcquireWake(c) ==
    /\ callers[c].pc = "sleeping"
    /\ clock >= callers[c].wakeAt
    /\ Grant(c, callers[c].calledAt)
    /\ UNCHANGED <<clock, storeVars, pmapVars, importVars, historyVars, queryVars, handleVars>>

\* Time passes.
LimiterTick ==
    /\ clock < MaxClock
    /\ clock' = clock + 1
    /\ UNCHANGED <<next, callers, grants, storeVars, pmapVars, importVars, historyVars, queryVars, handleVars>>

LimiterNext ==
    \/ \E c \in Callers : AcquireCall(c)
    \/ \E c \in Callers : AcquireWake(c)
    \/ LimiterTick

SpecLimiter == LimiterInit /\ [][LimiterNext]_vars

\* C3: any two grants of one limiter are at least Interval apart, so N
\* grants never complete in less than (N-1)*Interval, and callers that were
\* blocked at the same time are not released together.
C3_GrantsSpaced ==
    \A i \in 1..Len(grants) : \A j \in 1..Len(grants) :
        i < j => grants[j].at - grants[i].at >= (j - i) * Interval

-----------------------------------------------------------------------------
(* SpecPMap: parallelMap(items, concurrency, fn)                           *)

\* items.length is drawn from 0..MaxItems, concurrency from 1..MaxConcurrency.
MaxItems == 4
MaxConcurrency == 3

\* items[i], for the indexes 0..n-1 of the array.
ItemAt(i) == 10 * (i + 1)

\* What fn(item, i) resolves to.
ResultOf(item) == item + 100

\* Mutant of WorkerCount: one worker per item.
WorkerCount_PerItem(concurrency, length) == length

\* Math.min(concurrency, items.length): the number of workers started.
WorkerCount(concurrency, length) == Min(concurrency, length)

\* Mutant of ResultSlot: the slot is read from the shared idx after the
\* await instead of from the worker's own i.
ResultSlot_SharedIdx(i, idx) == idx

\* results[i] = ...: the slot a worker writes, i being its `const i`.
ResultSlot(i, idx) == i

\* A worker that took index i and awaits fn(items[i], i).
Awaiting(i) == [pc |-> "awaiting", i |-> i]
\* A worker whose loop has ended, and one whose unit of work has thrown.
WorkerDone   == [pc |-> "done", i |-> 0]
WorkerFailed == [pc |-> "failed", i |-> 0]

\* The indexes whose unit of work is in flight.
InFlight == {w \in DOMAIN pm.workers : pm.workers[w].pc = "awaiting"}

PMapInit ==
    /\ handle = Null /\ files = {} /\ log = <<>>
    /\ \E n \in 0..MaxItems, c \in 1..MaxConcurrency :
          pm = [ n       |-> n,           \* items.length
                 c       |-> c,           \* concurrency
                 idx     |-> 0,           \* let idx = 0
                 results |-> <<>>,        \* const results = [], by slot
                 workers |-> <<>>,
                 invoked |-> [i \in 0..n-1 |-> 0],  \* calls of fn per index
                 order   |-> <<>>,        \* indexes in completion order
                 main    |-> "called" ]
    /\ db = EmptyDb /\ now = 0
    /\ clock = 0 /\ next = 0 /\ callers = <<>> /\ grants = <<>>
    /\ remote = <<>> /\ imp = <<>> /\ runs = <<>>
    /\ hist = <<>> /\ tasks = <<>> /\ calls = {} /\ qry = NoQuery

\* Array.from({length: Math.min(concurrency, items.length)}, () => worker()):
\* the workers are started one after the other, and each runs without
\* yielding up to its first await: it takes the index idx++ and calls fn.
PMapStart ==
    /\ pm.main = "called"
    /\ LET k == WorkerCount(pm.c, pm.n)
           \* worker w takes the index w-1 while one is left
           took(w) == w - 1 < pm.n
       IN  pm' = [pm EXCEPT
                    !.workers = [w \in 1..k |->
                                   IF took(w) THEN Awaiting(w - 1) ELSE WorkerDone],
                    !.idx     = Min(k, pm.n),
                    !.invoked = [i \in 0..pm.n-1 |-> IF i < k THEN 1 ELSE 0],
                    !.main    = "waiting"]
    /\ UNCHANGED <<storeVars, limiterVars, importVars, historyVars, queryVars, handleVars>>

\* The unit of work of worker w resolves: results[i] = its value; then the
\* loop test, and either the next index is taken (const i = idx++) and fn is
\* called on it, or the worker ends.
PMapResolve(w) ==
    /\ pm.main # "called"
    /\ w \in InFlight
    /\ LET i    == pm.workers[w].i
           slot == ResultSlot(i, pm.idx)
           more == pm.idx < pm.n
       IN  pm' = [pm EXCEPT
                    !.results = Put(@, slot, ResultOf(ItemAt(i))),
                    !.order   = Append(@, i),
                    !.workers[w] = IF more THEN Awaiting(pm.idx) ELSE WorkerDone,
                    !.invoked = IF more THEN [@ EXCEPT ![pm.idx] = @ + 1] ELSE @,
                    !.idx     = IF more THEN @ + 1 ELSE @]
    /\ UNCHANGED <<storeVars, limiterVars, importVars, historyVars, queryVars, handleVars>>

\* The unit of work of worker w throws: the worker's promise rejects and
\* its loop is over; the other workers go on.
PMapReject(w) ==
    /\ pm.main # "called"
    /\ w \in InFlight
    /\ pm' = [pm EXCEPT !.workers[w] = WorkerFailed]
    /\ UNCHANGED <<storeVars, limiterVars, importVars, historyVars, queryVars, handleVars>>

\* await Promise.all(workers); return results: parallelMap returns once
\* every worker has ended, and throws as soon as one has failed.
PMapSettle ==
    /\ pm.main = "waiting"
    /\ \/ /\ \E w \in DOMAIN pm.workers : pm.workers[w].pc = "failed"
          /\ pm' = [pm EXCEPT !.main = "thrown"]
       \/ /\ \A w \in DOMAIN pm.workers : pm.workers[w].pc = "done"
          /\ pm' = [pm EXCEPT !.main = "returned"]
    /\ UNCHANGED <<storeVars, limiterVars, importVars, historyVars, queryVars, handleVars>>

PMapNext ==
    \/ PMapStart
    \/ \E w \in DOMAIN pm.workers : PMapResolve(w)
    \/ \E w \in DOMAIN pm.workers : PMapReject(w)
    \/ PMapSettle

SpecPMap == PMapInit /\ [][PMapNext]_vars

\* C4: parallelMap never has more than `concurrency` units of work in
\* flight, whatever the order in which the units complete.
C4_BoundedInFlight == Cardinality(InFlight) <= pm.c

\* C4 witness: more items than workers, the limit is reached, and units
\* have completed out of index order.
C4_Witness ==
    /\ pm.n > pm.c
    /\ Cardinality(InFlight) = pm.c
    /\ \E a \in 1..Len(pm.order) : \E b \in 1..Len(pm.order) :
          a < b /\ pm.order[a] > pm.order[b]

\* C5: the unit of work is invoked at most once per item at any time, only
\* min(N, C) workers exist, and when parallelMap returns every item has
\* been invoked exactly once and results[i] is the result for items[i]
\* (for N = 0: nothing invoked, the result is empty).
C5_EachItemOnce ==
    /\ \A i \in 0..pm.n-1 : pm.invoked[i] <= 1
    /\ Len(pm.workers) <= Min(pm.n, pm.c)
    /\ pm.main = "returned" =>
          /\ \A i \in 0..pm.n-1 : pm.invoked[i] = 1
          /\ DOMAIN pm.results = 0..pm.n-1
          /\ \A i \in 0..pm.n-1 : pm.results[i] = ResultOf(ItemAt(i))

\* C5 witness: parallelMap has returned for more items than workers, the
\* units having completed out of index order.
C5_Witness ==
    /\ pm.main = "returned"
    /\ pm.n > pm.c /\ pm.c > 1
    /\ \E a \in 1..Len(pm.order) : \E b \in 1..Len(pm.order) :
          a < b /\ pm.order[a] > pm.order[b]

-----------------------------------------------------------------------------
(* SpecImport: importChannel, run after run, against one remote channel    *)

\* const PAGE_SIZE = 100
PAGE_SIZE == 100
\* importChannel is run at most MaxRuns times.
MaxRuns == 3

\* The channel that is imported, and its guild.
ImportedChannel == 1
ImportedGuild == 1

\* Message ids are snowflakes: decimal strings, later messages having the
\* numerically greater id. The model holds an id as the number and compares
\* two ids the way the code's operator does. The remote channel holds the
\* ids base+1 .. base+n.
RemoteIds(r) == (r.base + 1)..(r.base + r.n)

\* The decimal digits of an id, the characters of the string.
RECURSIVE Digits(_)
Digits(n) == IF n < 10 THEN <<n>> ELSE Append(Digits(n \div 10), n % 10)

\* s < t for strings, as JavaScript compares them: by the first character
\* that differs, a proper prefix being the smaller.
RECURSIVE LexLess(_, _)
LexLess(s, t) ==
    IF t = <<>> THEN FALSE
    ELSE IF s = <<>> THEN TRUE
    ELSE IF Head(s) # Head(t) THEN Head(s) < Head(t)
    ELSE LexLess(Tail(s), Tail(t))

\* a > b on two id strings.
StrGreater(a, b) == LexLess(Digits(b), Digits(a))

\* The message object the source returns for an id of the channel.
ChannelMsg(id) ==
    [RemoteMsg(id, 0, 0) EXCEPT !.channelId = ImportedChannel,
                                !.guildId   = ImportedGuild,
                                !.author    = UserObj(1 + (id % 2))]

\* Mutant of FetchOpts: the first request of a resumed run pages backward
\* from the cursor.
FetchOpts_BeforeCursor(afterId, lastId) ==
    IF afterId # Null /\ lastId = Null THEN [after |-> Null, before |-> afterId]
    ELSE IF lastId # Null THEN [after |-> Null, before |-> lastId]
    ELSE [after |-> Null, before |-> Null]

\* Mutant of FetchOpts: no request carries a bound, so every request
\* returns the newest page.
FetchOpts_Unbounded(afterId, lastId) == [after |-> Null, before |-> Null]

\* fetchOpts = { limit: PAGE_SIZE }, plus `after` on the first request when
\* a cursor is stored, or `before` once a page has been seen this run.
FetchOpts(afterId, lastId) ==
    IF afterId # Null /\ lastId = Null THEN [after |-> afterId, before |-> Null]
    ELSE IF lastId # Null THEN [after |-> Null, before |-> lastId]
    ELSE [after |-> Null, before |-> Null]

\* channel.messages.fetch(fetchOpts) on the source: at most PAGE_SIZE ids,
\* newest first; with `after` the ones closest after that id, with `before`
\* the ones closest before it, with neither the newest ones.
FetchPage(r, opts) ==
    LET first == r.base + 1
        last  == r.base + r.n
        lo == IF opts.after # Null THEN Max(opts.after + 1, first)
              ELSE IF opts.before # Null
                   THEN Max(Min(opts.before - 1, last) - PAGE_SIZE + 1, first)
                   ELSE Max(last - PAGE_SIZE + 1, first)
        hi == IF opts.after # Null THEN Min(lo + PAGE_SIZE - 1, last)
              ELSE IF opts.before # Null THEN Min(opts.before - 1, last)
                   ELSE last
    IN  IF hi < lo THEN <<>> ELSE [i \in 1..(hi - lo + 1) |-> ChannelMsg(hi - i + 1)]

\* Mutant of Transaction: the upserts are not wrapped in a transaction, so
\* what was written before the failure stays.
Transaction_None(before, partial, after, threw) ==
    IF threw THEN partial ELSE after

\* db.transaction(fn)(): COMMIT when fn returns, ROLLBACK to the store as it
\* was before when fn throws (`partial` being what fn had written by then).
Transaction(before, partial, after, threw) ==
    IF threw THEN before ELSE after

\* The page is persisted in one transaction; failAt = 0 when no upsert
\* fails, otherwise the upsert of message number failAt throws.
PersistInTransaction(d, msgArray, failAt, t) ==
    LET steps == PersistSteps(d, msgArray, ImportedChannel, ImportedGuild, t)
    IN  Transaction(d, steps[Max(failAt, 1)], steps[Len(msgArray) + 1], failAt # 0)

\* Mutant of HasMore: the loop goes on until a page comes back empty.
HasMore_UntilEmpty(size) == size > 0

\* hasMore = messages.size === PAGE_SIZE
HasMore(size) == size = PAGE_SIZE

\* if (!latestId || newest.id > (latestId ?? '0')) latestId = newest.id
NewLatest(latestId, newestId) ==
    IF latestId = Null \/ StrGreater(newestId, latestId) THEN newestId ELSE latestId

\* The store without its timestamps (updated_at, imported_at).
StripTimes(d) ==
    [ messages |-> [i \in 1..Len(d.messages) |-> [d.messages[i] EXCEPT !.imported_at = Null]],
      fts      |-> d.fts,
      users    |-> [u \in DOMAIN d.users |-> [d.users[u] EXCEPT !.updated_at = Null]],
      channels |-> [c \in DOMAIN d.channels |-> [d.channels[c] EXCEPT !.updated_at = Null]],
      cursors  |-> [c \in DOMAIN d.cursors |-> [d.cursors[c] EXCEPT !.updated_at = Null]],
      pins     |-> d.pins,
      guilds   |-> [g \in DOMAIN d.guilds |-> [d.guilds[g] EXCEPT !.updated_at = Null]],
      members  |-> [m \in DOMAIN d.members |-> [d.members[m] EXCEPT !.updated_at = Null]],
      roles    |-> [r \in DOMAIN d.roles |-> [d.roles[r] EXCEPT !.updated_at = Null]],
      emoji    |-> [e \in DOMAIN d.emoji |-> [d.emoji[e] EXCEPT !.updated_at = Null]] ]

\* The remote channel starts with base + 1 as its first id; a base of 0
\* makes the ids differ in length, a base of 1000 gives them one length.
Bases == {0, 1000}
\* How many messages the remote channel may hold.
RemoteSizes == {0, 1, PAGE_SIZE, PAGE_SIZE + 2, 2 * PAGE_SIZE + 2}

\* No page has been persisted yet in this run.
NoAttempt == [lo |-> Null, hi |-> Null, had |-> {}, users |-> {}, failed |-> FALSE]

\* importChannel is not running.
IdleImp ==
    [ pc       |-> "idle",
      afterId  |-> Null,
      latestId |-> Null,
      lastId   |-> Null,
      msgCount |-> 0,
      requests |-> <<>>,      \* the fetchOpts of this run's requests
      pages    |-> <<>>,      \* <<newest id, oldest id>> of each page returned
      outcome  |-> "none",
      att      |-> NoAttempt ]

\* The upserts that may throw inside the transaction of a page.
FailPoints(msgArray) == {1, (Len(msgArray) + 1) \div 2, Len(msgArray)}

\* The channel row exists before its messages are imported (importHistory
\* upserts the channels before it calls importChannel).
ImportInitDb == upsertChannel(EmptyDb, ChannelObj(ImportedChannel), 1)

ImportInit ==
    /\ handle = Null /\ files = {} /\ log = <<>>
    /\ \E b \in Bases, n \in RemoteSizes : remote = [base |-> b, n |-> n]
    /\ imp = IdleImp
    /\ runs = [ n            |-> 0,       \* runs completed
                snap         |-> StripTimes(ImportInitDb),
                static       |-> FALSE,   \* remote unchanged since the last run
                prevOk       |-> FALSE,   \* the last run met no failure
                cursorBefore |-> Null ]   \* the stored cursor when the run began
    /\ db = ImportInitDb /\ now = 1
    /\ clock = 0 /\ next = 0 /\ callers = <<>> /\ grants = <<>>
    /\ pm = <<>>
    /\ hist = <<>> /\ tasks = <<>> /\ calls = {} /\ qry = NoQuery

\* importChannel is called: the cursor is read, the loop is entered and
\* the first await throttle() is reached.
ImportBegin ==
    /\ imp.pc = "idle" /\ runs.n < MaxRuns
    /\ LET afterId == getImportCursor(db, ImportedChannel)
       IN  /\ imp' = [IdleImp EXCEPT !.pc = "throttle", !.afterId = afterId,
                                     !.latestId = afterId, !.outcome = "running"]
           /\ runs' = [runs EXCEPT !.cursorBefore = afterId]
    /\ now' = now + 1
    /\ UNCHANGED <<db, remote, limiterVars, pmapVars, historyVars, queryVars, handleVars>>

\* throttle() resolves: fetchOpts is built and the request is sent.
ImportRequest ==
    /\ imp.pc = "throttle"
    /\ imp' = [imp EXCEPT !.pc = "fetch",
                          !.requests = Append(@, FetchOpts(imp.afterId, imp.lastId))]
    /\ UNCHANGED <<db, now, remote, runs, limiterVars, pmapVars, historyVars, queryVars, handleVars>>

\* Mutant of ImportFetchFails: the failure path writes the cursor it has
\* tracked so far.
ImportFetchFails_SavesCursor ==
    /\ imp.pc = "fetch"
    /\ \E kind \in {"noaccess", "timeout", "other"} :
          imp' = [imp EXCEPT !.pc = "done", !.outcome = kind]
    /\ db' = IF imp.latestId # Null
             THEN setImportCursor(db, ImportedChannel, imp.latestId, now)
             ELSE db
    /\ UNCHANGED <<now, remote, runs, limiterVars, pmapVars, historyVars, queryVars, handleVars>>

\* The fetch rejects: codes 50001 and 50013 return from the inner catch,
\* every other error is rethrown to the outer catch, which logs and
\* returns. The cursor is not written on any of these paths.
ImportFetchFails ==
    /\ imp.pc = "fetch"
    /\ \E kind \in {"noaccess", "timeout", "other"} :
          imp' = [imp EXCEPT !.pc = "done", !.outcome = kind]
    /\ UNCHANGED <<db, now, remote, runs, limiterVars, pmapVars, historyVars, queryVars, handleVars>>

\* The fetch resolves with a page and no upsert fails: an empty page
\* breaks out of the loop; otherwise the page is persisted, latestId and
\* lastId are updated, and the loop goes on while the page was full. After
\* the loop the cursor is written when latestId is set.
ImportPage ==
    /\ imp.pc = "fetch"
    /\ LET msgArray == FetchPage(remote, imp.requests[Len(imp.requests)])
           size     == Len(msgArray)
       IN  IF size = 0
           THEN /\ db' = IF imp.latestId # Null
                         THEN setImportCursor(db, ImportedChannel, imp.latestId, now)
                         ELSE db
                /\ imp' = [imp EXCEPT !.pc = "done", !.outcome = "ok"]
           ELSE LET d1       == PersistInTransaction(db, msgArray, 0, now)
                    newest   == msgArray[1]
                    oldest   == msgArray[size]
                    latestId == NewLatest(imp.latestId, newest.id)
                    hasMore  == HasMore(size)
                    att      == [ lo     |-> oldest.id,
                                  hi     |-> newest.id,
                                  had    |-> StoredIds(db) \cap (oldest.id..newest.id),
                                  users  |-> DOMAIN db.users,
                                  failed |-> FALSE ]
                IN  /\ db' = IF hasMore THEN d1
                             ELSE setImportCursor(d1, ImportedChannel, latestId, now)
                    /\ imp' = [imp EXCEPT
                                !.pc       = IF hasMore THEN "throttle" ELSE "done",
                                !.outcome  = IF hasMore THEN @ ELSE "ok",
                                !.msgCount = @ + size,
                                !.latestId = latestId,
                                !.lastId   = oldest.id,
                                !.pages    = Append(@, <<newest.id, oldest.id>>),
                                !.att      = att]
    /\ UNCHANGED <<now, remote, runs, limiterVars, pmapVars, historyVars, queryVars, handleVars>>

\* The fetch resolves with a page and an upsert throws inside the
\* transaction: the error reaches the outer catch, which logs and returns.
ImportPageFails ==
    /\ imp.pc = "fetch"
    /\ LET msgArray == FetchPage(remote, imp.requests[Len(imp.requests)])
           size     == Len(msgArray)
       IN  /\ size > 0
           /\ \E failAt \in FailPoints(msgArray) :
                 db' = PersistInTransaction(db, msgArray, failAt, now)
           /\ imp' = [imp EXCEPT
                        !.pc      = "done",
                        !.outcome = "error",
                        !.pages   = Append(@, <<msgArray[1].id, msgArray[size].id>>),
                        !.att     = [ lo     |-> msgArray[size].id,
                                      hi     |-> msgArray[1].id,
                                      had    |-> StoredIds(db)
                                                   \cap (msgArray[size].id..msgArray[1].id),
                                      users  |-> DOMAIN db.users,
                                      failed |-> TRUE ]]
    /\ UNCHANGED <<now, remote, runs, limiterVars, pmapVars, historyVars, queryVars, handleVars>>

\* importChannel has returned.
ImportEnd ==
    /\ imp.pc = "done"
    /\ imp' = [imp EXCEPT !.pc = "idle"]
    /\ runs' = [runs EXCEPT !.n = @ + 1, !.snap = StripTimes(db),
                            !.static = TRUE, !.prevOk = (imp.outcome = "ok")]
    /\ UNCHANGED <<db, now, remote, limiterVars, pmapVars, historyVars, queryVars, handleVars>>

\* Between two runs messages are posted to the remote channel.
RemoteGrows ==
    /\ imp.pc = "idle" /\ runs.n < MaxRuns
    /\ \E n \in RemoteSizes :
          /\ n > remote.n
          /\ remote' = [remote EXCEPT !.n = n]
    /\ runs' = [runs EXCEPT !.static = FALSE]
    /\ UNCHANGED <<db, now, imp, limiterVars, pmapVars, historyVars, queryVars, handleVars>>

ImportNext ==
    \/ ImportBegin
    \/ ImportRequest
    \/ ImportFetchFails
    \/ ImportPage
    \/ ImportPageFails
    \/ ImportEnd
    \/ RemoteGrows

SpecImport == ImportInit /\ [][ImportNext]_vars

-----------------------------------------------------------------------------
(* SpecImport: claims                                                      *)

\* The ids of the page the run persisted last, and their authors.
AttemptIds == IF imp.att.hi = Null THEN {} ELSE imp.att.lo..imp.att.hi
AttemptAuthors == {ChannelMsg(id).author.id : id \in AttemptIds}

\* C6: a page of fetched messages is persisted atomically. In every state
\* after a page has gone through its transaction, either all messages of
\* the page and all their authors are stored, or nothing of the page was
\* written: the page's ids that are stored are the ones stored before and
\* the users table holds the users it held before.
C6_PageAtomic ==
    imp.att.hi # Null =>
        LET stored == AttemptIds \cap StoredIds(db)
        IN  \/ /\ stored = AttemptIds
               /\ AttemptAuthors \subseteq DOMAIN db.users
            \/ /\ stored = imp.att.had
               /\ DOMAIN db.users = imp.att.users

\* A page of several messages, none of them stored before, whose
\* transaction failed.
C6_Witness ==
    /\ imp.att.failed
    /\ imp.att.had = {}
    /\ imp.att.hi - imp.att.lo >= 1
    /\ AttemptIds \cap StoredIds(db) = {}

\* C7: a run of the import that follows a run after which the remote did
\* not change, both meeting no failure, leaves the store as the earlier run
\* left it, timestamps aside.
C7_SecondRunIdempotent ==
    (imp.pc = "done" /\ imp.outcome = "ok" /\ runs.n >= 1
        /\ runs.static /\ runs.prevOk)
    => StripTimes(db) = runs.snap

\* C9: when the channel has a stored cursor X the first request of a run
\* is `after X` (and then only messages after X come back), and when it
\* has none the first request carries neither `after` nor `before`.
C9_FirstRequest ==
    Len(imp.requests) >= 1 =>
        LET X == runs.cursorBefore
            r == imp.requests[1]
        IN  /\ r.before = Null
            /\ r.after = X
            /\ imp.pc \in {"throttle", "fetch"}
                  => X = getImportCursor(db, ImportedChannel)
            /\ (X # Null /\ Len(imp.pages) >= 1) => imp.pages[1][2] > X

\* A run that began with a stored cursor has received its first page.
C9_Witness ==
    /\ runs.cursorBefore # Null
    /\ Len(imp.requests) >= 1
    /\ Len(imp.pages) >= 1
    /\ imp.requests[1].after = runs.cursorBefore

\* The ids a run has observed: the newest id of each page it received.
ObservedNewest == {imp.pages[i][1] : i \in 1..Len(imp.pages)}

\* C10: after a run that met no failure the cursor is the greatest, in the
\* ids' time order, of the ids the run observed and the cursor it began
\* with; the cursor never moves backward.
C10_CursorGreatest ==
    (imp.pc = "done" /\ imp.outcome = "ok") =>
        LET X      == runs.cursorBefore
            all    == ObservedNewest \cup (IF X # Null THEN {X} ELSE {})
            cursor == getImportCursor(db, ImportedChannel)
        IN  /\ all = {} => cursor = Null
            /\ all # {} => cursor = CHOOSE m \in all : \A o \in all : m >= o
            /\ X # Null => cursor >= X

\* The run has ended on a failed page fetch.
FetchFailed == imp.pc = "done" /\ imp.outcome \in {"noaccess", "timeout", "other"}

\* C11: when a page fetch of the channel fails (no access, timeout or any
\* other error, on the first page or on a later one), the channel's stored
\* cursor after the run is the one stored before the run.
C11_FailureKeepsCursor ==
    FetchFailed => getImportCursor(db, ImportedChannel) = runs.cursorBefore

\* A run with a stored cursor has persisted a full page of newer messages
\* and then failed on the fetch of the next page.
C11_Witness ==
    /\ FetchFailed
    /\ runs.cursorBefore # Null
    /\ Len(imp.pages) >= 1
    /\ imp.latestId # runs.cursorBefore

-----------------------------------------------------------------------------
(* SpecHistory: importHistory over the guilds of a remote                  *)

\* const DEFAULT_CONCURRENCY = 2
DEFAULT_CONCURRENCY == 2
\* At most MaxFailures calls fail or throw during one run.
MaxFailures == 2

\* ChannelType.GuildText, GuildVoice, GuildAnnouncement, PublicThread,
\* GuildForum of discord.js.
GuildText == 0
GuildVoice == 2
GuildAnnouncement == 5
PublicThread == 11
GuildForum == 15
\* const textTypes = [GuildText, GuildAnnouncement, GuildForum]
TextTypes == {GuildText, GuildAnnouncement, GuildForum}

\* The remote: client.guilds.cache holds guilds 1 and 2. Guild 1 has the
\* text channels 1 and 2 and the voice channel 6, an active thread 4 under
\* channel 1 and an archived thread 5 under channel 2; guild 2 has the
\* announcement channel 3.
RemoteGuilds == <<1, 2>>
GuildObj(g) == [id |-> g, name |-> 400 + g]
GuildChannels(g) == IF g = 1 THEN <<1, 2, 6>> ELSE <<3>>
GuildOfChannel(c) == IF c = 3 THEN 2 ELSE 1
HistChannel(c) ==
    [ id       |-> c,
      guildId  |-> GuildOfChannel(c),
      name     |-> 300 + c,
      type     |-> IF c \in {1, 2} THEN GuildText
                   ELSE IF c = 3 THEN GuildAnnouncement
                   ELSE IF c = 6 THEN GuildVoice
                   ELSE PublicThread,
      parentId |-> IF c = 4 THEN 1 ELSE IF c = 5 THEN 2 ELSE Null ]

\* guild.members.fetch() and guild.members.cache: the users of the member
\* objects. guild.roles.cache and guild.emojis.cache hold one entry each.
FetchedMembers(g) == IF g = 1 THEN <<1, 2>> ELSE <<1>>
CachedMembers(g)  == IF g = 1 THEN <<1>> ELSE <<>>
MemberObj(u) == [user |-> UserObj(u), nickname |-> Null]
RoleObj(g)  == [id |-> 500 + g, name |-> 510 + g]
EmojiObj(g) == [id |-> 600 + g, name |-> 610 + g]

\* The messages of a channel or thread: channel 1 holds one full page,
\* channels 2 and 4 one message, the others none; the ids of channel c
\* are 1000 * c + 1 and up.
RemoteChannel(c) ==
    [ base |-> 1000 * c,
      n    |-> IF c = 1 THEN PAGE_SIZE ELSE IF c \in {2, 4} THEN 1 ELSE 0 ]

\* guild.channels.fetchActiveThreads(): every active thread of the guild.
ActiveThreads(g) == IF g = 1 THEN <<4>> ELSE <<>>

\* parentCh.threads.fetchArchived({limit: 100, before}): channel 2 answers
\* with thread 5 and hasMore on the first page and with an empty page
\* after it; the other channels have no archived thread.
ArchivedPage(c, before) ==
    IF c = 2 /\ before = Null
    THEN [threads |-> <<5>>, hasMore |-> TRUE]
    ELSE [threads |-> <<>>, hasMore |-> FALSE]

\* channel.messages.fetchPinned(): the oldest message of channels 1 and 2
\* is pinned.
PinnedOf(c) ==
    IF c \in {1, 2}
    THEN <<[ChannelMsg(1000 * c + 1) EXCEPT !.channelId = c,
                                            !.guildId = GuildOfChannel(c)]>>
    ELSE <<>>

\* for (const member of members.values()) { upsertUser; upsertMember }
RECURSIVE UpsertMembers(_, _, _, _)
UpsertMembers(d, guildId, users, t) ==
    IF users = <<>> THEN d
    ELSE UpsertMembers(
             upsertMember(upsertUser(d, MemberObj(Head(users)).user, t),
                          guildId, MemberObj(Head(users)), t),
             guildId, Tail(users), t)

\* for (const ch of ...) upsertChannel(db, ch)
RECURSIVE UpsertChannels(_, _, _)
UpsertChannels(d, chans, t) ==
    IF chans = <<>> THEN d
    ELSE UpsertChannels(upsertChannel(d, HistChannel(Head(chans)), t), Tail(chans), t)

\* for (const guild of guilds) upsertGuild(db, guild)
RECURSIVE UpsertGuilds(_, _, _)
UpsertGuilds(d, guilds, t) ==
    IF guilds = <<>> THEN d
    ELSE UpsertGuilds(upsertGuild(d, GuildObj(Head(guilds)), t), Tail(guilds), t)

\* textChannels: the channels whose type is one of textTypes.
IsTextChannel(c) == HistChannel(c).type \in TextTypes
TextChannels(allChannels) == SelectSeq(allChannels, IsTextChannel)

\* The allow-lists a run is given (opts.channels): none, the id of channel
\* 2, or the name of channel 1. An entry names a channel by id or by name.
AllowLists == {{}, {2}, {301}}

\* importHistory's channel filter: with a non-empty opts.channels, the
\* text channels whose id or name is in the list; otherwise all of them.
\* (Ids and names are numbers here, so toLowerCase() has nothing to fold.)
TargetChannels(textChannels, channels) ==
    LET Listed(c) == HistChannel(c).id \in channels \/ HistChannel(c).name \in channels
    IN  IF channels # {} THEN SelectSeq(textChannels, Listed) ELSE textChannels

\* The program state importHistory and its workers share: W.h the locals
\* of importHistory, W.t the workers, W.c the calls made, W.d the store.
World == [h |-> hist, t |-> tasks, c |-> calls, d |-> db]

\* A call to the external source; `granted` tells whether the caller
\* awaited throttle() for it.
Call(kind, granted) == [kind |-> kind, granted |-> granted]

\* A worker enters fn(items[i]) and runs it up to its first await, the
\* throttle() of importChannel or of importPins. importChannel has read
\* the channel's cursor by then.
StartUnit(d, f, phase, item) ==
    LET afterId == IF phase = "pins" THEN Null ELSE getImportCursor(d, item)
    IN  [ fan      |-> f,
          pc       |-> "throttle",
          item     |-> item,
          afterId  |-> afterId,
          latestId |-> afterId,
          lastId   |-> Null ]

\* parallelMap(items, concurrency, fn) is called: Math.min(concurrency,
\* items.length) workers are started, worker k taking items[k].
StartFan(W, phase, items) ==
    LET f == Len(W.h.fans) + 1
        k == WorkerCount(W.h.concurrency, Len(items))
    IN  [W EXCEPT
           !.h.fans    = Append(@, [ phase |-> phase, guild |-> RemoteGuilds[W.h.gi],
                                     items |-> items, idx |-> k ]),
           !.h.started = @ \cup {<<phase, items[i]>> : i \in 1..k},
           !.t         = @ \o [i \in 1..k |-> StartUnit(W.d, f, phase, items[i])]]

\* Mutant of PromiseAll: the await ends as soon as one worker has ended.
PromiseAll_Any(pcs) ==
    IF "failed" \in pcs THEN "rejected"
    ELSE IF pcs = {} \/ "done" \in pcs THEN "resolved"
    ELSE "pending"

\* await Promise.all(workers): rejected once a worker has thrown, resolved
\* once every worker has ended.
PromiseAll(pcs) ==
    IF "failed" \in pcs THEN "rejected"
    ELSE IF pcs \subseteq {"done"} THEN "resolved"
    ELSE "pending"

\* The workers of a parallelMap call, and what awaiting the call gives.
FanWorkers(t, f) == {w \in DOMAIN t : t[w].fan = f}
FanState(t, f) == PromiseAll({t[w].pc : w \in FanWorkers(t, f)})

\* The guild importHistory is processing.
CurrentGuild == RemoteGuilds[hist.gi]

\* for (const guild of guilds): the body starts with the member fetch;
\* after the last guild importHistory logs and returns.
BeginGuild(W, i) ==
    IF i > Len(RemoteGuilds)
    THEN [W EXCEPT !.h.pc = "returned"]
    ELSE [W EXCEPT !.h.pc = "members", !.h.gi = i,
                   !.c = @ \cup {Call("members", FALSE)}]

\* parallelMap(targetChannels, concurrency, importPins)
BeginPins(W) ==
    [StartFan(W, "pins", W.h.targets) EXCEPT !.h.pc = "awaitPins"]

\* importThreads, for (const parentCh of parentChannels): throttle() is
\* awaited before the first archived page of each parent; after the last
\* parent the threads found are imported with parallelMap.
BeginParent(W, i) ==
    IF i > Len(W.h.targets)
    THEN [StartFan(W, "thread", W.h.threads) EXCEPT !.h.pc = "awaitThreads"]
    ELSE [W EXCEPT !.h.pc = "archThrottle", !.h.parentIdx = i, !.h.before = Null]

\* The step of the program leads to the world W.
Becomes(W) ==
    \E V \in {W} :
       /\ hist' = V.h /\ tasks' = V.t /\ calls' = V.c /\ db' = V.d
       /\ UNCHANGED <<now, limiterVars, pmapVars, importVars, queryVars, handleVars>>

\* A failure of a call or of a transaction is counted and recorded.
Fails(W, what) ==
    [W EXCEPT !.h.failures = @ + 1, !.h.failed = @ \cup {what}]
MayFail == hist.failures < MaxFailures

HistInit ==
    /\ handle = Null /\ files = {} /\ log = <<>>
    /\ \E c \in {1, DEFAULT_CONCURRENCY}, threads \in BOOLEAN, list \in AllowLists :
          hist = [ pc             |-> "start",
                   concurrency    |-> c,        \* opts.concurrency ?? DEFAULT_CONCURRENCY
                   includeThreads |-> threads,  \* opts.includeThreads ?? true
                   channels       |-> list,     \* opts.channels
                   gi             |-> 0,        \* position in `guilds`
                   targets        |-> <<>>,     \* targetChannels
                   threads        |-> <<>>,     \* importThreads: threads
                   parentIdx      |-> 0,        \* importThreads: position in parentChannels
                   before         |-> Null,     \* importThreads: before
                   fans           |-> <<>>,     \* the parallelMap calls made
                   started        |-> {},       \* the units of work entered (history)
                   failures       |-> 0,
                   failed         |-> {} ]      \* what has failed (history)
    /\ tasks = <<>> /\ calls = {} /\ qry = NoQuery
    /\ db = EmptyDb /\ now = 1
    /\ clock = 0 /\ next = 0 /\ callers = <<>> /\ grants = <<>>
    /\ pm = <<>>
    /\ remote = <<>> /\ imp = <<>> /\ runs = <<>>

\* importHistory with a client: the guilds of the cache are upserted and
\* the first guild's member fetch is sent.
HistStart ==
    /\ hist.pc = "start"
    /\ Becomes(BeginGuild([World EXCEPT !.d = UpsertGuilds(db, RemoteGuilds, now)], 1))

\* Mutant of HistMembers: a failed member fetch upserts nothing.
HistMembers_NoFallback ==
    /\ hist.pc = "members"
    /\ \E ok \in BOOLEAN :
          /\ ok \/ MayFail
          /\ LET g  == CurrentGuild
                 W0 == [World EXCEPT !.h.pc = "channels",
                                     !.c = @ \cup {Call("channels", FALSE)}]
                 W1 == [W0 EXCEPT !.d = UpsertMembers(db, g, FetchedMembers(g), now)]
             IN  Becomes(IF ok THEN W1 ELSE Fails(W0, <<"members", g>>))

\* guild.members.fetch() settles: the fetched members, or on failure the
\* cached ones, are upserted; then guild.channels.fetch() is sent.
HistMembers ==
    /\ hist.pc = "members"
    /\ \E ok \in BOOLEAN :
          /\ ok \/ MayFail
          /\ LET g  == CurrentGuild
                 ms == IF ok THEN FetchedMembers(g) ELSE CachedMembers(g)
                 W1 == [World EXCEPT !.d = UpsertMembers(db, g, ms, now),
                                     !.h.pc = "channels",
                                     !.c = @ \cup {Call("channels", FALSE)}]
             IN  Becomes(IF ok THEN W1 ELSE Fails(W1, <<"members", g>>))

\* guild.channels.fetch() settles (on failure the cache is used): the
\* channels, roles and emoji are upserted, the text channels are selected
\* and parallelMap(targetChannels, concurrency, importChannel) is called.
HistChannels ==
    /\ hist.pc = "channels"
    /\ \E ok \in BOOLEAN :
          /\ ok \/ MayFail
          /\ LET g   == CurrentGuild
                 all == GuildChannels(g)
                 d1  == UpsertChannels(db, all, now)
                 d2  == upsertEmoji(upsertRole(d1, g, RoleObj(g), now), g, EmojiObj(g), now)
                 W1  == [World EXCEPT !.d = d2, !.h.targets = TargetChannels(TextChannels(all), hist.channels)]
                 W2  == [StartFan(W1, "channel", W1.h.targets) EXCEPT !.h.pc = "awaitChannels"]
             IN  Becomes(IF ok THEN W2 ELSE Fails(W2, <<"channels", g>>))

\* await parallelMap(...) of the channel imports ends. A rejection leaves
\* importHistory through its finally block. Otherwise importThreads is
\* entered (its first await is throttle()), or with includeThreads off
\* the pin imports are started.
HistChannelsDone ==
    /\ hist.pc = "awaitChannels"
    /\ LET st == FanState(tasks, Len(hist.fans))
       IN  /\ st # "pending"
           /\ Becomes(IF st = "rejected" THEN [World EXCEPT !.h.pc = "thrown"]
                      ELSE IF hist.includeThreads
                      THEN [World EXCEPT !.h.pc = "activeThrottle", !.h.threads = <<>>]
                      ELSE BeginPins(World))

\* importThreads: throttle() resolves and fetchActiveThreads() is sent.
HistActiveRequest ==
    /\ hist.pc = "activeThrottle"
    /\ Becomes([World EXCEPT !.h.pc = "activeFetch",
                             !.c = @ \cup {Call("activeThreads", TRUE)}])

\* fetchActiveThreads() settles: the threads are pushed and upserted, or
\* the failure is logged; then the loop over the parent channels starts.
HistActive ==
    /\ hist.pc = "activeFetch"
    /\ \E ok \in BOOLEAN :
          /\ ok \/ MayFail
          /\ LET g  == CurrentGuild
                 W1 == [World EXCEPT !.h.threads = ActiveThreads(g),
                                     !.d = UpsertChannels(db, ActiveThreads(g), now)]
             IN  Becomes(IF ok THEN BeginParent(W1, 1)
                         ELSE BeginParent(Fails(World, <<"active", g>>), 1))

\* throttle() resolves and parentCh.threads.fetchArchived() is sent.
HistArchRequest ==
    /\ hist.pc = "archThrottle"
    /\ Becomes([World EXCEPT !.h.pc = "archFetch",
                             !.c = @ \cup {Call("archivedThreads", TRUE)}])

\* fetchArchived() settles: its threads are pushed and upserted; with
\* hasMore and a non-empty page throttle() is awaited for the next page,
\* otherwise, and on failure, the loop goes to the next parent.
HistArch ==
    /\ hist.pc = "archFetch"
    /\ \E ok \in BOOLEAN :
          /\ ok \/ MayFail
          /\ LET parent  == hist.targets[hist.parentIdx]
                 page    == ArchivedPage(parent, hist.before)
                 size    == Len(page.threads)
                 hasMore == page.hasMore /\ size > 0
                 W1 == [World EXCEPT
                          !.h.threads = @ \o page.threads,
                          !.d = UpsertChannels(db, page.threads, now),
                          !.h.before = IF size > 0 THEN page.threads[size] ELSE @]
             IN  Becomes(IF ~ok
                         THEN BeginParent(Fails(World, <<"archived", parent>>),
                                          hist.parentIdx + 1)
                         ELSE IF hasMore THEN [W1 EXCEPT !.h.pc = "archThrottle"]
                         ELSE BeginParent(W1, hist.parentIdx + 1))

\* await parallelMap(threads, ...) ends and importThreads returns: the pin
\* imports are started.
HistThreadsDone ==
    /\ hist.pc = "awaitThreads"
    /\ LET st == FanState(tasks, Len(hist.fans))
       IN  /\ st # "pending"
           /\ Becomes(IF st = "rejected" THEN [World EXCEPT !.h.pc = "thrown"]
                      ELSE BeginPins(World))

\* await parallelMap(...) of the pin imports ends: the next guild, or
\* 'Import complete.'
HistPinsDone ==
    /\ hist.pc = "awaitPins"
    /\ LET st == FanState(tasks, Len(hist.fans))
       IN  /\ st # "pending"
           /\ Becomes(IF st = "rejected" THEN [World EXCEPT !.h.pc = "thrown"]
                      ELSE BeginGuild(World, hist.gi + 1))

\* Mutant of OuterCatch: an error that is neither a missing access nor a
\* timeout is thrown again.
OuterCatch_Rethrow(kind) ==
    IF kind \in {"noaccess", "timeout"} THEN "return" ELSE "throw"

\* importChannel, catch (err): every error is logged and the function
\* returns.
OuterCatch(kind) == "return"

\* Mutant of UnitThrows: importPins has no try/catch, so an error inside it
\* rejects its promise.
UnitThrows_Pins(phase, kind) == phase = "pins"

\* Whether fn(item) of a parallelMap call rejects on an error of this
\* kind: importChannel as far as its catch lets the error out, the thread
\* import and importPins never (both wrap their body in try/catch).
UnitThrows(phase, kind) == phase = "channel" /\ OuterCatch(kind) = "throw"

\* fn(items[i]) has settled: a rejection ends the worker; otherwise the
\* worker takes the next index while one is left and enters fn on it.
EndUnit(W, w, threw) ==
    LET f   == W.t[w].fan
        fan == W.h.fans[f]
    IN  IF threw THEN [W EXCEPT !.t[w].pc = "failed"]
        ELSE IF fan.idx < Len(fan.items)
        THEN [W EXCEPT
                !.t[w] = StartUnit(W.d, f, fan.phase, fan.items[fan.idx + 1]),
                !.h.fans[f].idx = @ + 1,
                !.h.started = @ \cup {<<fan.phase, fan.items[fan.idx + 1]>>}]
        ELSE [W EXCEPT !.t[w].pc = "done"]

PhaseOf(w) == hist.fans[tasks[w].fan].phase
GuildOf(w) == hist.fans[tasks[w].fan].guild

\* throttle() resolves for a worker: the request is built and sent.
TaskRequest(w) ==
    /\ tasks[w].pc = "throttle"
    /\ Becomes([World EXCEPT
                  !.t[w].pc = "fetch",
                  !.c = @ \cup {Call(IF PhaseOf(w) = "pins" THEN "pinned" ELSE "messages",
                                     TRUE)}])

\* The fetch of a worker rejects. importChannel returns from its inner
\* catch (50001, 50013) or goes through its outer catch; importPins
\* swallows the error.
TaskFetchFails(w) ==
    /\ tasks[w].pc = "fetch"
    /\ MayFail
    /\ \E kind \in {"noaccess", "timeout", "other"} :
          Becomes(EndUnit(Fails(World, <<PhaseOf(w), tasks[w].item>>), w,
                          kind # "noaccess" /\ UnitThrows(PhaseOf(w), kind)))

\* The page of a channel or thread, as the source returns it.
TaskPageOf(w) ==
    FetchPage(RemoteChannel(tasks[w].item), FetchOpts(tasks[w].afterId, tasks[w].lastId))

\* channel.messages.fetch resolves for a worker inside importChannel and
\* no upsert fails: see ImportPage.
TaskPage(w) ==
    /\ tasks[w].pc = "fetch"
    /\ PhaseOf(w) # "pins"
    /\ \E msgArray \in {TaskPageOf(w)} :
       \E d1 \in {PersistPage(db, msgArray, tasks[w].item, GuildOf(w), now)} :
       LET me       == tasks[w]
           size     == Len(msgArray)
           latestId == IF size = 0 THEN me.latestId
                       ELSE NewLatest(me.latestId, msgArray[1].id)
           hasMore  == HasMore(size)
           d2       == IF latestId # Null
                       THEN setImportCursor(d1, me.item, latestId, now)
                       ELSE d1
       IN  Becomes(IF hasMore
                   THEN [World EXCEPT !.d = d1,
                                      !.t[w].pc = "throttle",
                                      !.t[w].latestId = latestId,
                                      !.t[w].lastId = msgArray[size].id]
                   ELSE EndUnit([World EXCEPT !.d = d2], w, FALSE))

\* The page arrives and an upsert throws inside the transaction: the
\* transaction rolls back and the error reaches the outer catch.
TaskPageFails(w) ==
    /\ tasks[w].pc = "fetch"
    /\ PhaseOf(w) # "pins"
    /\ MayFail
    /\ LET msgArray == TaskPageOf(w)
           steps    == PersistSteps(db, msgArray, tasks[w].item, GuildOf(w), now)
       IN  /\ Len(msgArray) > 0
           /\ \E failAt \in FailPoints(msgArray) :
                 Becomes(EndUnit(
                     Fails([World EXCEPT
                              !.d = Transaction(db, steps[failAt],
                                                steps[Len(msgArray) + 1], TRUE)],
                           <<"store", tasks[w].item>>),
                     w, UnitThrows(PhaseOf(w), "other")))

\* channel.messages.fetchPinned() resolves for a worker inside importPins:
\* nothing to do for no pin, otherwise each pinned message, its pin and
\* its author are upserted in one transaction.
TaskPinned(w) ==
    /\ tasks[w].pc = "fetch"
    /\ PhaseOf(w) = "pins"
    /\ \E pinned \in {PinnedOf(tasks[w].item)} :
       \E d1 \in {PersistPins(db, pinned, tasks[w].item, GuildOf(w), now)} :
          Becomes(EndUnit([World EXCEPT !.d = d1], w, FALSE))

\* The pinned messages arrive and an upsert throws inside the transaction:
\* the transaction rolls back and importPins swallows the error.
TaskPinnedFails(w) ==
    /\ tasks[w].pc = "fetch"
    /\ PhaseOf(w) = "pins"
    /\ MayFail
    /\ \E pinned \in {PinnedOf(tasks[w].item)} :
       \E failAt \in 1..Len(pinned) :
       \E partial \in {PersistPins(db, SubSeq(pinned, 1, failAt - 1),
                                   tasks[w].item, GuildOf(w), now)} :
       \E after \in {PersistPins(db, pinned, tasks[w].item, GuildOf(w), now)} :
          Becomes(EndUnit(
              Fails([World EXCEPT !.d = Transaction(db, partial, after, TRUE)],
                    <<"store", tasks[w].item>>),
              w, UnitThrows(PhaseOf(w), "other")))

HistNext ==
    \/ HistStart
    \/ HistMembers
    \/ HistChannels
    \/ HistChannelsDone
    \/ HistActiveRequest
    \/ HistActive
    \/ HistArchRequest
    \/ HistArch
    \/ HistThreadsDone
    \/ HistPinsDone
    \/ \E w \in DOMAIN tasks : TaskRequest(w)
    \/ \E w \in DOMAIN tasks : TaskFetchFails(w)
    \/ \E w \in DOMAIN tasks : TaskPage(w)
    \/ \E w \in DOMAIN tasks : TaskPageFails(w)
    \/ \E w \in DOMAIN tasks : TaskPinned(w)
    \/ \E w \in DOMAIN tasks : TaskPinnedFails(w)

SpecHistory == HistInit /\ [][HistNext]_vars

\* The scheduling of the run: a call that was sent settles, a throttle()
\* that is awaited resolves, and a continuation that is ready runs.
FairSpecHistory == SpecHistory /\ WF_vars(HistNext)

-----------------------------------------------------------------------------
(* SpecHistory: claims                                                     *)

\* The parallelMap calls one guild's processing makes.
FansPerGuild == IF hist.includeThreads THEN 3 ELSE 2

\* C12: a failure inside one channel import, thread import or pin import
\* never aborts its siblings or the run: no worker ends by a rejection,
\* importHistory does not throw, and when it has returned every guild went
\* through all its phases and every item of every parallelMap call was
\* entered, the channel and pin calls covering all selected text channels.
C12_FailuresContained ==
    /\ hist.pc # "thrown"
    /\ \A w \in DOMAIN tasks : tasks[w].pc # "failed"
    /\ hist.pc = "returned" =>
          /\ Len(hist.fans) = FansPerGuild * Len(RemoteGuilds)
          /\ \A f \in DOMAIN hist.fans :
                LET fan == hist.fans[f]
                IN  /\ fan.idx = Len(fan.items)
                    /\ \A i \in DOMAIN fan.items :
                          <<fan.phase, fan.items[i]>> \in hist.started
                    /\ fan.phase \in {"channel", "pins"}
                          => fan.items = TargetChannels(TextChannels(GuildChannels(fan.guild)),
                                                        hist.channels)

\* importHistory has returned after the page fetch of channel 1 failed
\* and a second failure occurred.
C12_Witness ==
    /\ hist.pc = "returned"
    /\ <<"channel", 1>> \in hist.failed
    /\ hist.failures = MaxFailures
    /\ hist.concurrency > 1

\* C13: every call to the external source is sent after a grant of the
\* rate limiter obtained for that call.
C13_EveryCallThrottled == \A call \in calls : call.granted

\* A worker of this phase and guild is inside its unit of work.
ActiveIn(phase, g) ==
    \E w \in DOMAIN tasks :
        /\ tasks[w].pc \in {"throttle", "fetch"}
        /\ hist.fans[tasks[w].fan].phase = phase
        /\ hist.fans[tasks[w].fan].guild = g

\* importThreads is discovering the threads of the guild.
Discovering(g) ==
    /\ hist.pc \in {"activeThrottle", "activeFetch", "archThrottle", "archFetch"}
    /\ CurrentGuild = g

\* C14: within one guild the phases do not overlap: while a channel
\* import is running there is no thread discovery, thread import or pin
\* import of that guild, and while a thread import is running there is no
\* pin import.
C14_PhasesDisjoint ==
    \A i \in DOMAIN RemoteGuilds :
        LET g == RemoteGuilds[i]
        IN  /\ ActiveIn("channel", g) =>
                  ~Discovering(g) /\ ~ActiveIn("thread", g) /\ ~ActiveIn("pins", g)
            /\ (Discovering(g) \/ ActiveIn("thread", g)) => ~ActiveIn("pins", g)

\* Two workers imported the channels of guild 1, its threads have been
\* imported and a pin import is running.
C14_Witness ==
    /\ hist.concurrency > 1
    /\ hist.includeThreads
    /\ ActiveIn("pins", 1)
    /\ <<"thread", 4>> \in hist.started
    /\ Cardinality(FanWorkers(tasks, 1)) > 1

\* C15: every pagination loop ends and importHistory completes.
C15_Completes ==
    <>(/\ hist.pc = "returned"
       /\ \A w \in DOMAIN tasks : tasks[w].pc = "done")

\* importHistory has returned after a channel import of two page fetches
\* and an archived-thread loop of two pages.
C15_Witness ==
    /\ hist.pc = "returned"
    /\ getImportCursor(db, 1) # Null
    /\ <<"thread", 5>> \in hist.started

-----------------------------------------------------------------------------
(* SpecQuery: the query helpers of the store applied to stores of bounded  *)
(* size                                                                    *)

\* The channel the queries are asked about holds up to MaxChannelSize
\* messages, a second channel MaxOtherSize; a search text has up to
\* MaxQueryLen characters.
MaxChannelSize == 21
MaxOtherSize == 2
MaxQueryLen == 3

\* The window sizes asked for: 1, 2, 3 and the default 10.
WindowSizes == {1, 2, 3, 10}
QueryChannels == {1, 2}

\* The id of message k of channel c, and an id no message has.
QueryId(c, k) == 100 * c + k
UnknownId == 999

\* created_at of message k of channel c: the messages of channel 1 at 10,
\* 20, 30, ... (with ties: 10, 10, 30, 30, ...), those of channel 2 in
\* between at 15, 25, ...
CreatedAt(c, k, ties) ==
    IF c = 1
    THEN IF ties THEN 10 * (2 * ((k + 1) \div 2) - 1) ELSE 10 * k
    ELSE 10 * k + 5

\* Message k of channel c as the listener receives it.
TimedMsg(c, k, ties) ==
    [RemoteMsg(QueryId(c, k), 0, 0) EXCEPT !.channelId  = c,
                                           !.guildId    = 1,
                                           !.author     = UserObj(c),
                                           !.content    = {1 + (k % 2), 10 + c},
                                           !.thread_id  =
                                               IF (c = 1 /\ k % 3 = 0) \/ (c = 2 /\ k = 1)
                                               THEN 2 ELSE Null,
                                           !.created_at = CreatedAt(c, k, ties)]

\* The messages of both channels, oldest first, those of channel 2 after
\* those of channel 1, or the same list reversed.
Timeline(n, m, ties, reversed) ==
    LET inOrder == [k \in 1..n |-> TimedMsg(1, k, ties)]
                   \o [k \in 1..m |-> TimedMsg(2, k, ties)]
    IN  IF reversed
        THEN [i \in 1..(n + m) |-> inOrder[n + m + 1 - i]]
        ELSE inOrder

\* The store after the listener has stored the messages in this order.
RECURSIVE StoreAll(_, _, _)
StoreAll(d, msgs, t) ==
    IF msgs = <<>> THEN d
    ELSE Only({ StoreAll(d1, Tail(msgs), t)
                : d1 \in {OnMessageCreate(d, Head(msgs), t)} })

\* SELECT created_at FROM messages WHERE id = @messageId: the first row
\* with this id, Null for none.
TargetOf(d, messageId) ==
    IF RowsOf(d, messageId) = {} THEN Null
    ELSE RowOf(d, messageId).created_at

\* The rows of a channel.
ChannelRows(d, channelId) ==
    {i \in 1..Len(d.messages) : d.messages[i].channel_id = channelId}

\* SELECT created_at ... WHERE channel_id = @channelId AND created_at <=
\* @targetTs ORDER BY created_at DESC LIMIT 1 OFFSET @half: the created_at
\* that `half` rows precede in descending order, Null (no row) when there
\* are at most `half` rows.
LowerBound(d, channelId, targetTs, half) ==
    LET rows == {i \in ChannelRows(d, channelId) : d.messages[i].created_at <= targetTs}
        at(i) == d.messages[i].created_at
    IN  IF Cardinality(rows) <= half THEN Null
        ELSE at(CHOOSE i \in rows :
                  /\ Cardinality({j \in rows : at(j) > at(i)}) <= half
                  /\ Cardinality({j \in rows : at(j) >= at(i)}) > half)

\* The same with created_at >= @targetTs ORDER BY created_at ASC.
UpperBound(d, channelId, targetTs, half) ==
    LET rows == {i \in ChannelRows(d, channelId) : d.messages[i].created_at >= targetTs}
        at(i) == d.messages[i].created_at
    IN  IF Cardinality(rows) <= half THEN Null
        ELSE at(CHOOSE i \in rows :
                  /\ Cardinality({j \in rows : at(j) < at(i)}) <= half
                  /\ Cardinality({j \in rows : at(j) <= at(i)}) > half)

\* x BETWEEN lo AND hi of SQL: not true when a bound is NULL.
Between(x, lo, hi) == lo # Null /\ hi # Null /\ lo <= x /\ x <= hi

\* ORDER BY m.created_at ASC: rows of equal created_at in rowid order.
RECURSIVE OrderByCreatedAt(_, _)
OrderByCreatedAt(d, rows) ==
    IF rows = {} THEN <<>>
    ELSE LET first == CHOOSE i \in rows : \A j \in rows :
                         \/ d.messages[i].created_at < d.messages[j].created_at
                         \/ /\ d.messages[i].created_at = d.messages[j].created_at
                            /\ i <= j
         IN  <<first>> \o OrderByCreatedAt(d, rows \ {first})

\* The columns getContext selects for a row, the names LEFT JOINed.
ContextRow(d, i) ==
    LET m == d.messages[i]
    IN  [ id                |-> m.id,
          author_id         |-> m.author_id,
          content           |-> m.content,
          thread_id         |-> m.thread_id,
          created_at        |-> m.created_at,
          user_display_name |-> IF Has(d.users, m.author_id)
                                THEN d.users[m.author_id].display_name ELSE Null,
          user_name         |-> IF Has(d.users, m.author_id)
                                THEN d.users[m.author_id].username ELSE Null,
          channel_name      |-> IF Has(d.channels, m.channel_id)
                                THEN d.channels[m.channel_id].name ELSE Null ]

\* getContext(db, channelId, messageId, windowSize)
getContext(d, channelId, messageId, windowSize) ==
    LET half     == windowSize \div 2
        targetTs == TargetOf(d, messageId)
    IN  IF targetTs = Null THEN <<>>
        ELSE LET lo   == LowerBound(d, channelId, targetTs, half)
                 hi   == UpperBound(d, channelId, targetTs, half)
                 rows == {i \in ChannelRows(d, channelId) :
                             Between(d.messages[i].created_at, lo, hi)}
                 sorted == OrderByCreatedAt(d, rows)
             IN  [k \in 1..Len(sorted) |-> ContextRow(d, sorted[k])]

\* The characters of a search text: the alphanumeric characters '1' and
\* '2', a whitespace character and a punctuation character. A word of a
\* message is the number its characters spell.
AlnumChars == {1, 2}
Space == 10
Punct == 11
QueryChars == AlnumChars \cup {Space, Punct}
Queries == UNION {[1..n -> QueryChars] : n \in 0..MaxQueryLen}

\* .replace(/[^a-zA-Z0-9\s]/g, ' ')
ReplaceSpecial(query) ==
    [i \in 1..Len(query) |->
        IF query[i] \in AlnumChars \/ query[i] = Space THEN query[i] ELSE Space]

\* .split(/\s+/): the pieces between the runs of whitespace, empty pieces
\* at the ends included.
RECURSIVE SplitWhitespace(_)
SplitWhitespace(s) ==
    IF \A i \in 1..Len(s) : s[i] # Space THEN <<s>>
    ELSE LET from == CHOOSE i \in 1..Len(s) :
                        s[i] = Space /\ \A j \in 1..(i - 1) : s[j] # Space
             to   == CHOOSE e \in from..Len(s) :
                        /\ \A j \in from..e : s[j] = Space
                        /\ e = Len(s) \/ s[e + 1] # Space
         IN  <<SubSeq(s, 1, from - 1)>> \o SplitWhitespace(SubSeq(s, to + 1, Len(s)))

\* .filter(Boolean): the empty pieces are dropped. The tokens that are then
\* quoted and joined.
Sanitize(query) ==
    SelectSeq(SplitWhitespace(ReplaceSpecial(query)), LAMBDA t : t # <<>>)

\* The word a token spells.
RECURSIVE WordOf(_)
WordOf(token) ==
    IF token = <<>> THEN 0
    ELSE 10 * WordOf(SubSeq(token, 1, Len(token) - 1)) + token[Len(token)]

\* A row of the index matches a quoted token: one of its three columns
\* holds the word.
TokenHits(d, j, token) ==
    \/ WordOf(token) \in d.fts[j].content_text
    \/ WordOf(token) = d.fts[j].user_name
    \/ WordOf(token) = d.fts[j].channel_name

\* Mutant of JoinOR: the tokens are joined with AND.
JoinOR_And(hits) == \A i \in DOMAIN hits : hits[i]

\* .join(' OR '): the query matches a row that any token matches.
JoinOR(hits) == \E i \in DOMAIN hits : hits[i]

\* messages_fts MATCH @query JOIN messages m ON m.rowid = messages_fts.rowid
MatchQuery(d, tokens) ==
    {d.fts[j].rowid : j \in {k \in 1..Len(d.fts) :
        JoinOR([i \in DOMAIN tokens |-> TokenHits(d, k, tokens[i])])}}
    \cap 1..Len(d.messages)

\* The options of a search: limit = 25 and no filter by default.
NoOpts ==
    [ limit |-> 25, channelId |-> Null, guildId |-> Null, userId |-> Null,
      before |-> Null, after |-> Null ]
SearchOpts ==
    { NoOpts,
      [NoOpts EXCEPT !.limit = 1],
      [NoOpts EXCEPT !.channelId = 1],
      [NoOpts EXCEPT !.guildId = 1, !.userId = 1, !.before = 100, !.after = 20] }

\* The filters appended to the WHERE clause, each only when it is given.
SearchWhere(d, r, opts) ==
    LET m == d.messages[r]
    IN  /\ opts.channelId # Null => m.channel_id = opts.channelId
        /\ opts.guildId # Null   => m.guild_id = opts.guildId
        /\ opts.userId # Null    => m.author_id = opts.userId
        /\ opts.before # Null    => m.created_at < opts.before
        /\ opts.after # Null     => m.created_at > opts.after

\* The subsets of k elements of a set of rowids.
RECURSIVE KSubsets(_, _)
KSubsets(S, k) ==
    IF k = 0 THEN {{}}
    ELSE UNION {{R \cup {x} : R \in KSubsets({y \in S : y > x}, k - 1)} : x \in S}

\* ORDER BY rank LIMIT @limit: all the rows when there are at most
\* `limit`, otherwise the `limit` rows the ranking puts first, which can
\* be any.
Limited(S, limit) ==
    IF Cardinality(S) <= limit THEN {S} ELSE KSubsets(S, limit)

\* Mutant of NoTokens: the search goes on to the index with no token.
NoTokens_Never(tokens) == FALSE

\* if (!sanitized) return []
NoTokens(tokens) == tokens = <<>>

\* The store holds n messages of channel 1 and MaxOtherSize of channel 2,
\* stored oldest first or newest first, with or without equal timestamps;
\* no query has been made.
QueryInit ==
    /\ handle = Null /\ files = {} /\ log = <<>>
    /\ \E n \in 0..MaxChannelSize, ties \in BOOLEAN, reversed \in BOOLEAN :
          db = StoreAll(StoreInitDb, Timeline(n, MaxOtherSize, ties, reversed), 1)
    /\ now = 1
    /\ qry = NoQuery
    /\ clock = 0 /\ next = 0 /\ callers = <<>> /\ grants = <<>>
    /\ pm = <<>>
    /\ remote = <<>> /\ imp = <<>> /\ runs = <<>>
    /\ hist = <<>> /\ tasks = <<>> /\ calls = {}

\* context(channelId, messageId, windowSize) is called; the queries are
\* synchronous, one runs at a time.
QueryContext ==
    /\ qry = NoQuery
    /\ \E channelId \in QueryChannels, windowSize \in WindowSizes,
          messageId \in StoredIds(db) \cup {UnknownId} :
          qry' = [ op         |-> "context",
                   channelId  |-> channelId,
                   messageId  |-> messageId,
                   windowSize |-> windowSize,
                   result     |-> getContext(db, channelId, messageId, windowSize) ]
    /\ UNCHANGED <<storeVars, limiterVars, pmapVars, importVars, historyVars, handleVars>>

\* search(query, opts) is called: no token, and the empty list is returned
\* at once; otherwise the index is queried, the filters applied and the
\* first `limit` rows returned (MATCH with no token at all is a syntax
\* error of the index). The result is held as the set of the ids returned.
QuerySearch ==
    /\ qry = NoQuery
    /\ \E query \in Queries, opts \in SearchOpts :
          LET tokens == Sanitize(query)
              call   == [ op |-> "search", query |-> query, opts |-> opts,
                          queried |-> TRUE, outcome |-> "rows", result |-> {} ]
          IN  IF NoTokens(tokens)
              THEN qry' = [call EXCEPT !.queried = FALSE]
              ELSE IF tokens = <<>>
              THEN qry' = [call EXCEPT !.outcome = "error"]
              ELSE \E rows \in Limited({r \in MatchQuery(db, tokens) :
                                           SearchWhere(db, r, opts)}, opts.limit) :
                      qry' = [call EXCEPT !.result = {db.messages[r].id : r \in rows}]
    /\ UNCHANGED <<storeVars, limiterVars, pmapVars, importVars, historyVars, handleVars>>

\* Mutant of ThreadWhere: only the messages posted in the thread.
ThreadWhere_ChannelOnly(m, threadId) == m.channel_id = threadId

\* WHERE m.channel_id = @threadId OR m.thread_id = @threadId
ThreadWhere(m, threadId) == m.channel_id = threadId \/ m.thread_id = threadId

\* The columns getThread selects for a row, the names LEFT JOINed.
ThreadRow(d, i) ==
    LET m == d.messages[i]
    IN  [ id                |-> m.id,
          author_id         |-> m.author_id,
          content           |-> m.content,
          thread_id         |-> m.thread_id,
          created_at        |-> m.created_at,
          user_display_name |-> IF Has(d.users, m.author_id)
                                THEN d.users[m.author_id].display_name ELSE Null,
          user_name         |-> IF Has(d.users, m.author_id)
                                THEN d.users[m.author_id].username ELSE Null ]

\* getThread(db, threadId)
getThread(d, threadId) ==
    LET rows   == {i \in 1..Len(d.messages) : ThreadWhere(d.messages[i], threadId)}
        sorted == OrderByCreatedAt(d, rows)
    IN  [k \in 1..Len(sorted) |-> ThreadRow(d, sorted[k])]

\* The thread ids asked for: the two channels and an id nothing carries.
ThreadIds == {1, 2, 7}

\* thread(threadId) is called.
QueryThread ==
    /\ qry = NoQuery
    /\ \E threadId \in ThreadIds :
          qry' = [ op       |-> "thread",
                   threadId |-> threadId,
                   result   |-> getThread(db, threadId) ]
    /\ UNCHANGED <<storeVars, limiterVars, pmapVars, importVars, historyVars, handleVars>>

\* The caller has taken the result of the query.
QueryReturn ==
    /\ qry # NoQuery
    /\ qry' = NoQuery
    /\ UNCHANGED <<storeVars, limiterVars, pmapVars, importVars, historyVars, handleVars>>

QueryNext ==
    \/ QueryContext
    \/ QuerySearch
    \/ QueryThread
    \/ QueryReturn

SpecQuery == QueryInit /\ [][QueryNext]_vars

-----------------------------------------------------------------------------
(* SpecQuery: claims about context                                         *)

\* The ids of the rows a query returned.
ResultIds == {qry.result[k].id : k \in 1..Len(qry.result)}

\* The rows of the queried channel older and newer than row i.
Older(i) ==
    {j \in ChannelRows(db, qry.channelId) :
        db.messages[j].created_at < db.messages[i].created_at}
Newer(i) ==
    {j \in ChannelRows(db, qry.channelId) :
        db.messages[j].created_at > db.messages[i].created_at}

\* The messages of the queried channel have distinct timestamps.
DistinctTimes ==
    \A i, j \in ChannelRows(db, qry.channelId) :
        db.messages[i].created_at = db.messages[j].created_at => i = j

\* The last query was context for a message stored in the queried channel.
TargetInChannel ==
    /\ qry.op = "context"
    /\ RowsOf(db, qry.messageId) \cap ChannelRows(db, qry.channelId) # {}

\* The row of the target of the last context query.
TargetRow == CHOOSE i \in RowsOf(db, qry.messageId) : TRUE

\* C16: context never returns more than windowSize messages, every
\* returned message belongs to the queried channel, and the messages are
\* in ascending created_at order.
C16_ContextWithinWindow ==
    qry.op = "context" =>
        /\ Len(qry.result) <= qry.windowSize
        /\ \A k \in 1..Len(qry.result) :
              RowOf(db, qry.result[k].id).channel_id = qry.channelId
        /\ \A k \in 1..(Len(qry.result) - 1) :
              qry.result[k].created_at <= qry.result[k + 1].created_at

\* C17: with distinct timestamps and at least floor(windowSize/2) messages
\* on each side of the target, context returns exactly the windowSize
\* messages that begin floor(windowSize/2) messages before the target
\* (t6..t15 for t11 of t1..t21 and window 10).
C17_ExactWindow ==
    (/\ TargetInChannel
     /\ DistinctTimes
     /\ Cardinality(Older(TargetRow)) >= qry.windowSize \div 2
     /\ Cardinality(Newer(TargetRow)) >= qry.windowSize \div 2)
    => LET first == Cardinality(Older(TargetRow)) - qry.windowSize \div 2
       IN  ResultIds =
             {db.messages[i].id : i \in
                {j \in ChannelRows(db, qry.channelId) :
                    /\ Cardinality(Older(j)) >= first
                    /\ Cardinality(Older(j)) <= first + qry.windowSize - 1}}

\* C18: when the target has fewer than floor(windowSize/2) messages on one
\* side, context returns the target and the messages that exist on the
\* short side, fewer than windowSize rows in all.
C18_ShortSideKept ==
    (/\ TargetInChannel
     /\ DistinctTimes
     /\ \/ Cardinality(Older(TargetRow)) < qry.windowSize \div 2
        \/ Cardinality(Newer(TargetRow)) < qry.windowSize \div 2)
    => /\ qry.messageId \in ResultIds
       /\ Cardinality(Older(TargetRow)) < qry.windowSize \div 2
             => \A j \in Older(TargetRow) : db.messages[j].id \in ResultIds
       /\ Cardinality(Newer(TargetRow)) < qry.windowSize \div 2
             => \A j \in Newer(TargetRow) : db.messages[j].id \in ResultIds
       /\ Len(qry.result) < qry.windowSize

-----------------------------------------------------------------------------
(* SpecQuery: claims about search                                          *)

\* The alphanumeric tokens of a text: its maximal runs of alphanumeric
\* characters.
AlnumRuns(text) ==
    {SubSeq(text, p[1], p[2]) : p \in
        {q \in (1..Len(text)) \X (1..Len(text)) :
            /\ q[1] <= q[2]
            /\ \A i \in q[1]..q[2] : text[i] \in AlnumChars
            /\ q[1] = 1 \/ text[q[1] - 1] \notin AlnumChars
            /\ q[2] = Len(text) \/ text[q[2] + 1] \notin AlnumChars}}

\* The ids of the stored messages whose index row matches this token.
IdsMatching(token) ==
    {db.messages[db.fts[j].rowid].id : j \in {k \in 1..Len(db.fts) :
        /\ db.fts[k].rowid \in 1..Len(db.messages)
        /\ TokenHits(db, k, token)}}

\* The last query was a search with no filter.
PlainSearch ==
    /\ qry.op = "search"
    /\ qry.opts.channelId = Null /\ qry.opts.guildId = Null
    /\ qry.opts.userId = Null
    /\ qry.opts.before = Null /\ qry.opts.after = Null

\* C19: search returns, within the limit, exactly the stored messages
\* whose indexed text matches at least one of the alphanumeric tokens of
\* the text: every message returned matches a token, and all of them are
\* returned unless there are more than the limit, when `limit` are.
C19_SearchAnyToken ==
    PlainSearch =>
        LET want == UNION {IdsMatching(token) : token \in AlnumRuns(qry.query)}
        IN  /\ qry.outcome = "rows"
            /\ qry.result \subseteq want
            /\ Cardinality(qry.result) = Min(qry.opts.limit, Cardinality(want))

\* A search with two different tokens returned a message that matches
\* only one of them.
C19_Witness ==
    /\ PlainSearch
    /\ Cardinality(AlnumRuns(qry.query)) = 2
    /\ \E id \in qry.result : \E token \in AlnumRuns(qry.query) :
          id \notin IdsMatching(token)

\* C20: a search text with no alphanumeric character returns the empty
\* list, without an error and without a query of the index, whatever the
\* filters.
C20_EmptySearch ==
    (/\ qry.op = "search"
     /\ \A i \in 1..Len(qry.query) : qry.query[i] \notin AlnumChars)
    => /\ qry.outcome = "rows"
       /\ qry.result = {}
       /\ ~qry.queried

\* A search for punctuation only, with a channel filter, has returned.
C20_Witness ==
    /\ qry.op = "search"
    /\ Len(qry.query) > 0
    /\ \A i \in 1..Len(qry.query) : qry.query[i] = Punct
    /\ qry.opts.channelId # Null
    /\ ~qry.queried
    /\ Len(db.messages) > 0

-----------------------------------------------------------------------------
(* SpecQuery: claims about thread                                          *)

\* C21: thread(T) returns exactly the stored messages whose channel id or
\* thread id is T, each once, in ascending created_at order.
C21_ThreadExact ==
    qry.op = "thread" =>
        LET want == {i \in 1..Len(db.messages) :
                        \/ db.messages[i].channel_id = qry.threadId
                        \/ db.messages[i].thread_id = qry.threadId}
        IN  /\ {qry.result[k].id : k \in 1..Len(qry.result)}
                 = {db.messages[i].id : i \in want}
            /\ Len(qry.result) = Cardinality(want)
            /\ \A k \in 1..(Len(qry.result) - 1) :
                  qry.result[k].created_at <= qry.result[k + 1].created_at

\* thread(2) has returned a message posted in channel 2 and, after it, a
\* message of channel 1 whose thread id is 2, from a store filled newest
\* first.
C21_Witness ==
    /\ qry.op = "thread"
    /\ qry.threadId = 2
    /\ \E k, l \in 1..Len(qry.result) :
          /\ k < l
          /\ RowOf(db, qry.result[k].id).channel_id = 2
          /\ RowOf(db, qry.result[l].id).channel_id = 1
          /\ qry.result[l].thread_id = 2
    /\ Len(db.messages) > 1
    /\ db.messages[1].created_at > db.messages[2].created_at

-----------------------------------------------------------------------------
(* SpecCursor: the import cursor helpers applied in any order              *)

\* The channels whose cursor is read and set, and the ids set.
CursorChannels == {1, 2, 3}
CursorIds == {5, 6}

\* The store after setImportCursor for each channel that has a cursor in
\* `given` (a function from channels to an id or Null).
RECURSIVE WithCursors(_, _, _)
WithCursors(d, given, todo) ==
    IF todo = {} THEN d
    ELSE LET c == CHOOSE x \in todo : TRUE
         IN  WithCursors(IF given[c] = Null THEN d
                         ELSE setImportCursor(d, c, given[c], 1),
                         given, todo \ {c})

\* Some channels have a cursor already; `given` records the id last set
\* for each channel (history).
CursorInit ==
    /\ handle = Null /\ files = {} /\ log = <<>>
    /\ \E given \in [CursorChannels -> {Null} \cup CursorIds] :
          /\ db = WithCursors(EmptyDb, given, CursorChannels)
          /\ qry = [op |-> "none", given |-> given]
    /\ now = 1
    /\ clock = 0 /\ next = 0 /\ callers = <<>> /\ grants = <<>>
    /\ pm = <<>>
    /\ remote = <<>> /\ imp = <<>> /\ runs = <<>>
    /\ hist = <<>> /\ tasks = <<>> /\ calls = {}

\* setImportCursor(db, channelId, latestId) is called.
CursorSet ==
    /\ \E channelId \in CursorChannels, latestId \in CursorIds :
          /\ db' = setImportCursor(db, channelId, latestId, now)
          /\ qry' = [ op        |-> "setImportCursor",
                      channelId |-> channelId,
                      latestId  |-> latestId,
                      given     |-> [qry.given EXCEPT ![channelId] = latestId] ]
    /\ UNCHANGED <<now, limiterVars, pmapVars, importVars, historyVars, handleVars>>

\* getImportCursor(db, channelId) is called.
CursorGet ==
    /\ \E channelId \in CursorChannels :
          qry' = [ op        |-> "getImportCursor",
                   channelId |-> channelId,
                   result    |-> getImportCursor(db, channelId),
                   given     |-> qry.given ]
    /\ UNCHANGED <<storeVars, limiterVars, pmapVars, importVars, historyVars, handleVars>>

CursorNext ==
    \/ CursorSet
    \/ CursorGet

SpecCursor == CursorInit /\ [][CursorNext]_vars

\* C22: importCursor(c) yields the id last set for c, whatever was set for
\* other channels in between, and null for a channel never set; the store
\* holds one cursor row per channel that was set and none for the others.
C22_CursorRoundTrip ==
    /\ qry.op = "getImportCursor" => qry.result = qry.given[qry.channelId]
    /\ \A c \in CursorChannels : getImportCursor(db, c) = qry.given[c]
    /\ DOMAIN db.cursors = {c \in CursorChannels : qry.given[c] # Null}

\* importCursor(1) has returned 6 after the cursor of channel 1 was set to
\* 5 and then to 6, channel 2 holding another cursor and channel 3 none.
C22_Witness ==
    /\ qry.op = "getImportCursor"
    /\ qry.channelId = 1
    /\ qry.result = 6
    /\ getImportCursor(db, 2) = 5
    /\ getImportCursor(db, 3) = Null

-----------------------------------------------------------------------------
(* The agent wrapper: name resolution                                      *)

\* Text is a sequence of characters; '' and undefined (both falsy) are the
\* empty sequence. Ids are digit strings, names carry letter case.
NoText == <<>>

Chars == {"a", "A", "b", "1", "2", "#"}

Texts == {<<x>> : x \in Chars} \cup {<<x, y>> : x \in Chars, y \in Chars}

\* SQL LOWER(): upper-case letters to lower case, the rest unchanged.
Lower(s) ==
    [i \in 1..Len(s) |-> IF s[i] = "A" THEN "a"
                         ELSE IF s[i] = "B" THEN "b"
                         ELSE s[i]]

\* query.replace(/^#/, '')
StripHash(query) ==
    IF Len(query) > 0 /\ query[1] = "#" THEN Tail(query) ELSE query

\* A store with two channels, two guilds and two users whose names are
\* mixed case; channel and guild 2 and user 2's username are `name`.
NamedDb(name) ==
    [EmptyDb EXCEPT
        !.channels = (<<"1">> :> [id |-> <<"1">>, name |-> <<"A", "b">>])
                  @@ (<<"2">> :> [id |-> <<"2">>, name |-> name]),
        !.guilds   = (<<"1">> :> [id |-> <<"1">>, name |-> <<"b", "A">>])
                  @@ (<<"2">> :> [id |-> <<"2">>, name |-> name]),
        !.users    = (<<"1">> :> [id |-> <<"1">>, username |-> <<"a", "b">>,
                                  display_name |-> <<"A">>])
                  @@ (<<"2">> :> [id |-> <<"2">>, username |-> name,
                                  display_name |-> <<"b">>]) ]

EntityNames == {<<"a">>, <<"A", "b">>, <<"b", "A">>, <<"1">>}

\* _resolveChannel: the ids the call may return (.get() takes the first of
\* the rows that match, in no stated order).
resolveChannel(d, query) ==
    IF query = NoText THEN {NoText}
    ELSE LET clean == StripHash(query)
             byName == {id \in DOMAIN d.channels :
                           Lower(d.channels[id].name) = Lower(clean)}
         IN  IF Has(d.channels, clean) THEN {clean}
             ELSE IF byName # {} THEN byName
             ELSE {clean}

\* _resolveGuild
resolveGuild(d, query) ==
    IF query = NoText THEN {NoText}
    ELSE LET byName == {id \in DOMAIN d.guilds :
                           Lower(d.guilds[id].name) = Lower(query)}
         IN  IF Has(d.guilds, query) THEN {query}
             ELSE IF byName # {} THEN byName
             ELSE {query}

\* _resolveUser
resolveUser(d, query) ==
    IF query = NoText THEN {NoText}
    ELSE LET byName == {id \in DOMAIN d.users :
                           \/ Lower(d.users[id].username) = Lower(query)
                           \/ Lower(d.users[id].display_name) = Lower(query)}
         IN  IF Has(d.users, query) THEN {query}
             ELSE IF byName # {} THEN byName
             ELSE {query}

\* The filters a caller gives: one of channel, guild and user.
FilterKinds == {"channel", "guild", "user"}

FilterOpts ==
    {o \in [FilterKinds -> {NoText} \cup Texts] :
        Cardinality({k \in FilterKinds : o[k] # NoText}) = 1}

ResolveInit ==
    /\ handle = Null /\ files = {} /\ log = <<>>
    /\ \E name \in EntityNames : db = NamedDb(name)
    /\ qry = NoQuery
    /\ now = 0
    /\ clock = 0 /\ next = 0 /\ callers = <<>> /\ grants = <<>>
    /\ pm = <<>>
    /\ remote = <<>> /\ imp = <<>> /\ runs = 0
    /\ hist = <<>> /\ tasks = <<>> /\ calls = {}

\* DiscordAgent.search: channel and guild go through their resolver, user
\* is handed to searchMessages as given.
AgentSearch ==
    /\ qry = NoQuery
    /\ \E opts \in FilterOpts :
       \E channelId \in resolveChannel(db, opts.channel) :
       \E guildId \in resolveGuild(db, opts.guild) :
          qry' = [ op     |-> "search",
                   opts   |-> opts,
                   passed |-> [channel |-> channelId,
                               guild   |-> guildId,
                               user    |-> opts.user] ]
    /\ UNCHANGED <<storeVars, limiterVars, pmapVars, importVars, historyVars, handleVars>>

\* DiscordAgent.userMessages: all three go through their resolver.
AgentUserMessages ==
    /\ qry = NoQuery
    /\ \E opts \in FilterOpts :
       \E userId \in resolveUser(db, opts.user) :
       \E channelId \in resolveChannel(db, opts.channel) :
       \E guildId \in resolveGuild(db, opts.guild) :
          qry' = [ op     |-> "userMessages",
                   opts   |-> opts,
                   passed |-> [channel |-> channelId,
                               guild   |-> guildId,
                               user    |-> userId] ]
    /\ UNCHANGED <<storeVars, limiterVars, pmapVars, importVars, historyVars, handleVars>>

\* The call returns.
AgentReturn ==
    /\ qry # NoQuery
    /\ qry' = NoQuery
    /\ UNCHANGED <<storeVars, limiterVars, pmapVars, importVars, historyVars, handleVars>>

ResolveNext ==
    \/ AgentSearch
    \/ AgentUserMessages
    \/ AgentReturn

SpecResolve == ResolveInit /\ [][ResolveNext]_vars

\* The stored ids of one kind of entity.
IdsOf(kind) ==
    IF kind = "channel" THEN DOMAIN db.channels
    ELSE IF kind = "guild" THEN DOMAIN db.guilds
    ELSE DOMAIN db.users

\* The names of entity id, all letters folded to lower case.
FoldedNames(kind, id) ==
    IF kind = "channel" THEN {Lower(db.channels[id].name)}
    ELSE IF kind = "guild" THEN {Lower(db.guilds[id].name)}
    ELSE {Lower(db.users[id].username), Lower(db.users[id].display_name)}

\* What a filter value stands for: itself when it is a stored id, the id of
\* an entity it names (a channel name may carry a leading '#') otherwise,
\* and itself when it matches nothing.
Canonical(kind, raw) ==
    LET value == IF kind = "channel" THEN StripHash(raw) ELSE raw
        named == {id \in IdsOf(kind) : Lower(value) \in FoldedNames(kind, id)}
    IN  IF raw \in IdsOf(kind) THEN {raw}
        ELSE IF value \in IdsOf(kind) THEN {value}
        ELSE IF named # {} THEN named
        ELSE {raw}

\* C23: every channel, guild or user filter handed to the store's query is
\* the canonical id of the entity the given value names case-insensitively
\* (a leading '#' stripped from a channel name), the value itself when it
\* is a stored id, and the value unchanged when it matches nothing.
C23_FiltersResolved ==
    qry.op \in {"search", "userMessages"} =>
        \A kind \in FilterKinds :
            qry.opts[kind] # NoText =>
                qry.passed[kind] \in Canonical(kind, qry.opts[kind])

-----------------------------------------------------------------------------
(* SpecHistory: the pin backfill                                           *)

\* A step in which something a pin import asked for has failed.
PinsFailure(w) ==
    /\ w \in DOMAIN tasks
    /\ tasks[w].pc = "fetch"
    /\ PhaseOf(w) = "pins"
    /\ hist'.failures = hist.failures + 1
    /\ tasks'[w] # tasks[w]

\* C24: in every state every pin row has a message row with the same id;
\* a failing pinned fetch (or a failing pin transaction) leaves the store
\* as it was and does not reject the pin import: the worker goes on and
\* the run is not stopped.
C24_PinsHaveMessages ==
    /\ [](DOMAIN db.pins \subseteq StoredIds(db))
    /\ [][ \A w \in DOMAIN tasks :
              PinsFailure(w) =>
                 /\ db' = db
                 /\ tasks'[w].pc # "failed"
                 /\ hist'.pc # "thrown" ]_vars

\* The run has returned with the pinned message of channel 1 stored as a
\* message and as a pin, after the pinned fetch of channel 2 failed and
\* left no pin of channel 2.
C24_Witness ==
    /\ hist.pc = "returned"
    /\ <<"pins", 2>> \in hist.failed
    /\ 1001 \in DOMAIN db.pins
    /\ 1001 \in StoredIds(db)
    /\ 2001 \notin DOMAIN db.pins

-----------------------------------------------------------------------------
(* SpecLimiter: the length of a wait                                       *)

\* C25: the sleep an acquire() call asks for is never longer than one
\* interval, so no call waits longer than one interval for its grant
\* (timers taken to fire on time).
C25_WaitBounded ==
    \A c \in Callers :
        callers[c].pc = "sleeping" =>
            callers[c].wakeAt - callers[c].calledAt <= Interval

-----------------------------------------------------------------------------
(* SpecImport: the pagination loop                                         *)

\* The number of messages of the k-th page this run was answered with; an
\* empty page is an answer that is not in imp.pages.
PageSize(k) ==
    IF k <= Len(imp.pages) THEN imp.pages[k][1] - imp.pages[k][2] + 1 ELSE 0

\* C26: within one channel import a page is requested after another only
\* when that one held exactly PAGE_SIZE messages, so nothing is requested
\* after a shorter or an empty page; and a run that met no failure has
\* requested a page after every page of exactly PAGE_SIZE messages.
C26_NextPageIffFull ==
    /\ \A k \in 2..Len(imp.requests) :
          k - 1 <= Len(imp.pages) /\ PageSize(k - 1) = PAGE_SIZE
    /\ imp.outcome = "ok" =>
          \A k \in 1..Len(imp.pages) :
              PageSize(k) = PAGE_SIZE => Len(imp.requests) > k

\* A run has ended after three requests: two pages of PAGE_SIZE messages
\* and a last page of two.
C26_Witness ==
    /\ imp.pc = "done"
    /\ imp.outcome = "ok"
    /\ Len(imp.requests) = 3
    /\ PageSize(1) = PAGE_SIZE
    /\ PageSize(2) = PAGE_SIZE
    /\ PageSize(3) = 2

-----------------------------------------------------------------------------
(* SpecImport: the index entries of an imported page                       *)

\* The entry of messages_fts for the message with this id.
FtsEntryOf(d, id) ==
    LET rowid == CHOOSE i \in RowsOf(d, id) : TRUE
    IN  {d.fts[j] : j \in {j \in 1..Len(d.fts) : d.fts[j].rowid = rowid}}

\* C27: after a page is persisted, every message it inserted has one index
\* entry, which carries the display name (or else the username) of the
\* message's author and the name of the channel, whether or not the author
\* was in the users table before the page.
C27_IndexCarriesNames ==
    (imp.att.hi # Null /\ ~imp.att.failed) =>
        \A id \in AttemptIds \ imp.att.had :
           \E e \in FtsEntryOf(db, id) :
              /\ FtsEntryOf(db, id) = {e}
              /\ e.user_name = Coalesce(ChannelMsg(id).author.displayName,
                                        ChannelMsg(id).author.username)
              /\ e.channel_name = ChannelObj(ImportedChannel).name

-----------------------------------------------------------------------------
(* SpecRows: the importer, the pin backfill and every handler of the       *)
(* listener writing to one store                                           *)

\* Listener, Events.ChannelCreate, ChannelUpdate and ThreadCreate:
\* upsertChannel of the channel.
OnChannelEvent(d, channel, t) == upsertChannel(d, channel, t)

\* Listener, Events.GuildCreate (and ClientReady for each cached guild):
\* upsertGuild, then upsertChannel of every channel of its cache.
OnGuildCreate(d, g, t) ==
    UpsertChannels(upsertGuild(d, GuildObj(g), t), GuildChannels(g), t)

\* Listener, Events.GuildMemberAdd: upsertUser, then upsertMember.
OnGuildMemberAdd(d, g, member, t) ==
    upsertMember(upsertUser(d, member.user, t), g, member, t)

\* The pages and messages of channel 1 the writers are handed.
RowsPages == {page \in StorePages : page[1].channelId = 1}
RowsMsgs == {RemoteMsg(i, v, 0) : i \in MsgIds, v \in Versions}

RowsInit ==
    /\ handle = Null /\ files = {} /\ log = <<>>
    /\ db = EmptyDb
    /\ now = 1
    /\ clock = 0 /\ next = 0 /\ callers = <<>> /\ grants = <<>>
    /\ pm = <<>>
    /\ remote = <<>> /\ imp = <<>> /\ runs = <<>>
    /\ hist = <<>> /\ tasks = <<>> /\ calls = {} /\ qry = NoQuery

\* importChannel persists a fetched page.
RowsImportPage ==
    \E page \in RowsPages :
        /\ db' = PersistPage(db, page, page[1].channelId, page[1].guildId, now)
        /\ UNCHANGED <<now, limiterVars, pmapVars, importVars, historyVars, queryVars, handleVars>>

\* importPins persists the pinned messages of a channel.
RowsImportPins ==
    \E page \in RowsPages :
        /\ db' = PersistPins(db, page, page[1].channelId, page[1].guildId, now)
        /\ UNCHANGED <<now, limiterVars, pmapVars, importVars, historyVars, queryVars, handleVars>>

\* The listener receives a new message.
RowsMessageCreate ==
    \E msg \in RowsMsgs :
        /\ db' = OnMessageCreate(db, msg, now)
        /\ UNCHANGED <<now, limiterVars, pmapVars, importVars, historyVars, queryVars, handleVars>>

\* The listener receives an edit or a reaction change.
RowsMessageUpdate ==
    \E msg \in RowsMsgs :
        /\ db' = OnMessageUpdate(db, msg, now)
        /\ UNCHANGED <<now, limiterVars, pmapVars, importVars, historyVars, queryVars, handleVars>>

\* The listener receives the event of a new thread.
RowsChannelEvent ==
    /\ db' = OnChannelEvent(db, HistChannel(4), now)
    /\ UNCHANGED <<now, limiterVars, pmapVars, importVars, historyVars, queryVars, handleVars>>

\* The listener becomes ready or joins a guild.
RowsGuildCreate ==
    /\ db' = OnGuildCreate(db, 2, now)
    /\ UNCHANGED <<now, limiterVars, pmapVars, importVars, historyVars, queryVars, handleVars>>

\* A member joins guild 1.
RowsGuildMemberAdd ==
    /\ db' = OnGuildMemberAdd(db, 1, MemberObj(2), now)
    /\ UNCHANGED <<now, limiterVars, pmapVars, importVars, historyVars, queryVars, handleVars>>

RowsNext ==
    \/ RowsImportPage
    \/ RowsImportPins
    \/ RowsMessageCreate
    \/ RowsMessageUpdate
    \/ RowsChannelEvent
    \/ RowsGuildCreate
    \/ RowsGuildMemberAdd

SpecRows == RowsInit /\ [][RowsNext]_vars

\* The ids of the rows of the messages, channels, users, guilds and pins
\* tables.
RowIds(d) ==
    [ messages |-> StoredIds(d),
      channels |-> DOMAIN d.channels,
      users    |-> DOMAIN d.users,
      guilds   |-> DOMAIN d.guilds,
      pins     |-> DOMAIN d.pins ]

\* C28: no step of the importer, the pin backfill or the listener removes
\* a row: every message, channel, user, guild and pin id stored before a
\* step is stored after it, and no message row is dropped from the table.
C28_RowsOnlyGrow ==
    [][ /\ \A table \in DOMAIN RowIds(db) :
              RowIds(db)[table] \subseteq RowIds(db')[table]
        /\ Len(db'.messages) >= Len(db.messages) ]_vars

\* Both messages, both users, a guild, two channels and a pin are
\* stored, message 1 in its edited version.
C28_Witness ==
    /\ RowIds(db).messages = {1, 2}
    /\ RowIds(db).users = {1, 2}
    /\ RowIds(db).guilds = {2}
    /\ RowIds(db).channels = {3, 4}
    /\ RowIds(db).pins # {}
    /\ RowOf(db, 1).content = ContentOf(1)

-----------------------------------------------------------------------------
(* SpecRace: the listener and the importer on one store, the messages of   *)
(* the channel being edited on the source meanwhile                        *)

\* The page of channel 1 as the source holds it: every message in its
\* present version, newest first.
RacePage(version) == <<RemoteMsg(2, version[2], 0), RemoteMsg(1, version[1], 0)>>

\* Both messages exist on the source in version 0, the store holds the
\* channels only; no edit event is on its way and no fetch is in flight.
RaceInit ==
    /\ handle = Null /\ files = {} /\ log = <<>>
    /\ remote = [version |-> [i \in MsgIds |-> 0], events |-> <<>>]
    /\ imp = [pc |-> "idle", page |-> <<>>]
    /\ db = StoreInitDb
    /\ now = 1
    /\ clock = 0 /\ next = 0 /\ callers = <<>> /\ grants = <<>>
    /\ pm = <<>>
    /\ runs = <<>>
    /\ hist = <<>> /\ tasks = <<>> /\ calls = {} /\ qry = NoQuery

\* A message is edited on the source; the gateway sends the event.
RaceEdit ==
    /\ \E i \in MsgIds :
          /\ remote.version[i] < MaxVersion
          /\ remote' = [remote EXCEPT
                          !.version[i] = @ + 1,
                          !.events = Append(@, RemoteMsg(i, remote.version[i] + 1, 0))]
    /\ UNCHANGED <<db, now, imp, runs, limiterVars, pmapVars, historyVars, queryVars, handleVars>>

\* Listener, Events.MessageUpdate: the next event is handled.
RaceMessageUpdate ==
    /\ remote.events # <<>>
    /\ db' = OnMessageUpdate(db, Head(remote.events), now)
    /\ remote' = [remote EXCEPT !.events = Tail(@)]
    /\ UNCHANGED <<now, imp, runs, limiterVars, pmapVars, historyVars, queryVars, handleVars>>

\* importChannel, channel.messages.fetch(fetchOpts): the source answers
\* with the page as it holds it at this moment; the answer is on its way.
RaceFetch ==
    /\ imp.pc = "idle"
    /\ imp' = [pc |-> "fetched", page |-> RacePage(remote.version)]
    /\ UNCHANGED <<db, now, remote, runs, limiterVars, pmapVars, historyVars, queryVars, handleVars>>

\* importChannel, after the await: the page is persisted in a transaction.
RaceImportPage ==
    /\ imp.pc = "fetched"
    /\ db' = PersistPage(db, imp.page, 1, 1, now)
    /\ imp' = [pc |-> "idle", page |-> <<>>]
    /\ UNCHANGED <<now, remote, runs, limiterVars, pmapVars, historyVars, queryVars, handleVars>>

RaceNext ==
    \/ RaceEdit
    \/ RaceMessageUpdate
    \/ RaceFetch
    \/ RaceImportPage

SpecRace == RaceInit /\ [][RaceNext]_vars

\* The version of the source whose content the store holds for a message.
StoredVersion(d, id) == CHOOSE v \in Versions : RowOf(d, id).content = ContentOf(v)

\* C29: with the listener and the importer writing to one store, no step
\* replaces the stored content of a message by that of an older version
\* of the source: a page fetched before an edit which the listener has
\* applied does not bring the content from before the edit back.
C29_NoOlderOverwrite ==
    [][ \A id \in StoredIds(db) :
            StoredVersion(db', id) >= StoredVersion(db, id) ]_vars

-----------------------------------------------------------------------------
(* SpecImport: what an incremental run fetches                             *)

\* C30: in a run that began with a stored cursor, every page the run was
\* answered with and persisted lies after the cursor: its oldest id, and
\* with it every id of the page, is greater than the cursor.
C30_OnlyAfterCursor ==
    runs.cursorBefore # Null =>
        \A k \in 1..Len(imp.pages) : imp.pages[k][2] > runs.cursorBefore

-----------------------------------------------------------------------------
(* SpecImport: what a run leaves stored                                    *)

\* A run of importChannel has ended without a failure.
RunSucceeded == imp.pc = "done" /\ imp.outcome = "ok"

\* C31: a run that began with a stored cursor and ended without a failure
\* has stored every message of the remote channel whose id is greater than
\* that cursor, however many pages of them there are.
C31_AllAfterCursorStored ==
    (RunSucceeded /\ runs.cursorBefore # Null) =>
        \A id \in RemoteIds(remote) :
            id > runs.cursorBefore => id \in StoredIds(db)

\* C33: a run that began without a stored cursor and ended without a
\* failure has stored every message of the remote channel and has set the
\* cursor to the newest remote id; for an empty remote channel it has
\* written no cursor row.
C33_FirstRunComplete ==
    (RunSucceeded /\ runs.cursorBefore = Null) =>
        /\ RemoteIds(remote) \subseteq StoredIds(db)
        /\ IF remote.n = 0
           THEN ~Has(db.cursors, ImportedChannel)
           ELSE getImportCursor(db, ImportedChannel) = remote.base + remote.n

-----------------------------------------------------------------------------
(* SpecRepeat: importChannel run again and again, every fetch and every    *)
(* transaction succeeding, against a remote that grows at most once        *)

\* How many messages the remote channel may hold.
RepeatSizes == {0, 1, PAGE_SIZE - 1, PAGE_SIZE + 2, 2 * PAGE_SIZE + 2}

RepeatInit ==
    /\ handle = Null /\ files = {} /\ log = <<>>
    /\ \E b \in Bases, n \in RepeatSizes : remote = [base |-> b, n |-> n]
    /\ imp = IdleImp
    /\ runs = [grown |-> FALSE, cursorBefore |-> Null]
    /\ db = ImportInitDb /\ now = 1
    /\ clock = 0 /\ next = 0 /\ callers = <<>> /\ grants = <<>>
    /\ pm = <<>>
    /\ hist = <<>> /\ tasks = <<>> /\ calls = {} /\ qry = NoQuery

\* importChannel is called: the cursor is read, the loop is entered and
\* the first await throttle() is reached.
RepeatBegin ==
    /\ imp.pc = "idle"
    /\ \E afterId \in {getImportCursor(db, ImportedChannel)} :
          /\ imp' = [IdleImp EXCEPT !.pc = "throttle", !.afterId = afterId,
                                    !.latestId = afterId, !.outcome = "running"]
          /\ runs' = [runs EXCEPT !.cursorBefore = afterId]
    /\ UNCHANGED <<db, now, remote, limiterVars, pmapVars, historyVars, queryVars, handleVars>>

\* importChannel has returned.
RepeatEnd ==
    /\ imp.pc = "done"
    /\ imp' = [imp EXCEPT !.pc = "idle"]
    /\ UNCHANGED <<db, now, remote, runs, limiterVars, pmapVars, historyVars, queryVars, handleVars>>

\* Between two runs messages are posted to the remote channel, once.
RepeatGrows ==
    /\ imp.pc = "idle" /\ ~runs.grown
    /\ \E n \in RepeatSizes :
          /\ n > remote.n
          /\ remote' = [remote EXCEPT !.n = n]
    /\ runs' = [runs EXCEPT !.grown = TRUE]
    /\ UNCHANGED <<db, now, imp, limiterVars, pmapVars, historyVars, queryVars, handleVars>>

\* The steps of the runs.
RepeatRun ==
    \/ RepeatBegin
    \/ ImportRequest
    \/ ImportPage
    \/ RepeatEnd

RepeatNext ==
    \/ RepeatBegin
    \/ ImportRequest
    \/ ImportPage
    \/ RepeatEnd
    \/ RepeatGrows

SpecRepeat == RepeatInit /\ [][RepeatNext]_vars

\* The runs are repeated for ever: a run that can begin begins, and each
\* of its awaits resolves.
FairSpecRepeat == SpecRepeat /\ WF_vars(RepeatRun)

\* C32: with the runs repeated and the remote static from some moment on,
\* a moment comes from which every message of the remote channel is stored
\* and the runs are answered with empty pages only.
C32_EventuallyComplete ==
    <>[](/\ RemoteIds(remote) \subseteq StoredIds(db)
         /\ imp.pages = <<>>)

\* ---------------------------------------------------------------------
\* The channel allow-list of a history run (importHistory, importThreads)
\* ---------------------------------------------------------------------

\* The channel is named by the run's allow-list, by id or by name.
AllowListed(c) == TargetChannels(<<c>>, hist.channels) = <<c>>

\* What the allow-list lets a run import: an allow-listed text-like
\* channel, or a thread whose parent channel is allow-listed.
InAllowedScope(c) ==
    IF HistChannel(c).type = PublicThread
    THEN AllowListed(HistChannel(c).parentId)
    ELSE IsTextChannel(c) /\ AllowListed(c)

\* C34: with a channel allow-list, a run fetches and stores messages only
\* of allow-listed text-like channels and of threads whose parent channel
\* is allow-listed: every unit of work it enters, and every message it
\* stores, belongs to such a channel or thread.
C34_OnlyAllowListed ==
    hist.channels # {} =>
       /\ \A unit \in hist.started : InAllowedScope(unit[2])
       /\ \A i \in 1..Len(db.messages) : InAllowedScope(db.messages[i].channel_id)

\* ---------------------------------------------------------------------
\* The columns upsertMessage writes on insert only
\* ---------------------------------------------------------------------

\* The stores the writers produce from store d and this input at time t.
WritesAt(d, page, t) ==
    {PersistPage(d, page, page[1].channelId, page[1].guildId, t),
     PersistPins(d, page, page[1].channelId, page[1].guildId, t)}
    \cup (IF Len(page) = 1
          THEN {OnMessageCreate(d, page[1], t), OnMessageUpdate(d, page[1], t)}
          ELSE {})

\* The columns of a messages row that the conflict branch does not name.
InsertOnlyColumns(row) ==
    [ channel_id   |-> row.channel_id,
      guild_id     |-> row.guild_id,
      author_id    |-> row.author_id,
      thread_id    |-> row.thread_id,
      reference_id |-> row.reference_id,
      created_at   |-> row.created_at,
      imported_at  |-> row.imported_at ]

\* C35: a write of a message id that is already stored, by the importer,
\* the pin backfill or the listener at a later time, leaves the row's
\* channel_id, guild_id, author_id, thread_id, reference_id, created_at and
\* imported_at as they were, whatever the new message object carries.
C35_InsertOnlyColumnsKept ==
    \A page \in StorePages : \A d2 \in WritesAt(db, page, now + 1) :
        \A n \in 1..Len(page) :
            page[n].id \in StoredIds(db) =>
                InsertOnlyColumns(RowOf(d2, page[n].id))
                    = InsertOnlyColumns(RowOf(db, page[n].id))

\* Message 1 was inserted without a thread id and written again by a
\* message object of the other shape (other channel, guild, author, thread
\* id, reference id and creation time): its row still has no thread id.
C35_Witness ==
    /\ StoredIds(db) = {1}
    /\ RowOf(db, 1).thread_id = Null
    /\ RowOf(db, 1).channel_id = 1
    /\ Has(db.users, 2)

-----------------------------------------------------------------------------
(* SpecAsk: the compound query of the agent (DiscordAgent.ask)             *)

\* The store holds up to MaxAskSize messages of channel 1 (the third one
\* with thread id 2) and MaxOtherSize of channel 2 (the first one with
\* thread id 2).
MaxAskSize == 3

\* The questions asked: no character, punctuation only, one word, two
\* words.
AskQuestions ==
    { <<>>, <<Punct>>, <<1>>, <<2>>, <<1, 1>>, <<1, Space, 2>> }

\* The options of ask: topK and contextWindow absent or given, and the
\* option `limit` of search absent or given.
AskOpts ==
    [ topK : {Null, 1, 2}, contextWindow : {Null, 2}, limit : {Null, 4} ]

\* a || b
OrElse(a, b) == IF a # Null /\ a # Empty THEN a ELSE b

\* The row of searchMessages' SELECT for rowid r: the columns of the
\* message and the names LEFT JOINed from users, channels and guilds.
SearchRow(d, r) ==
    LET m == d.messages[r]
    IN  [ id                |-> m.id,
          channel_id        |-> m.channel_id,
          thread_id         |-> m.thread_id,
          content           |-> m.content,
          created_at        |-> m.created_at,
          user_display_name |-> IF Has(d.users, m.author_id)
                                THEN d.users[m.author_id].display_name ELSE Null,
          user_name         |-> IF Has(d.users, m.author_id)
                                THEN d.users[m.author_id].username ELSE Null,
          channel_name      |-> IF Has(d.channels, m.channel_id)
                                THEN d.channels[m.channel_id].name ELSE Null,
          guild_name        |-> IF Has(d.guilds, m.guild_id)
                                THEN d.guilds[m.guild_id].name ELSE Null ]

\* ORDER BY rank: the orders the index can give the matching rows.
Rankings(S) ==
    {f \in [1..Cardinality(S) -> S] : \A i, j \in DOMAIN f : f[i] = f[j] => i = j}

\* { limit: topK, ...opts }: an option `limit` of the caller replaces topK.
SpreadLimit(topK, opts) == IF opts.limit # Null THEN opts.limit ELSE topK

\* if (hit.thread_id)
HasThread(hit) == hit.thread_id # Null

\* The key of a hit in contextMap: `thread:<thread_id>` or
\* `context:<channel_id>:<id>`.
ContextKey(hit) ==
    IF HasThread(hit) THEN <<"thread", hit.thread_id>>
    ELSE <<"context", hit.channel_id, hit.id>>

\* The loop of ask over the hits from position i: ctx.map is contextMap,
\* ctx.fetched the keys for which getThread or getContext was run, in
\* order.
RECURSIVE AskLoop(_, _, _, _, _)
AskLoop(d, hits, i, contextWindow, ctx) ==
    IF i > Len(hits) THEN ctx
    ELSE LET hit == hits[i]
             key == ContextKey(hit)
         IN  IF key \in DOMAIN ctx.map
             THEN AskLoop(d, hits, i + 1, contextWindow, ctx)
             ELSE LET entry ==
                        [ type     |-> key[1],
                          channel  |-> hit.channel_name,
                          guild    |-> hit.guild_name,
                          messages |-> IF HasThread(hit)
                                       THEN getThread(d, hit.thread_id)
                                       ELSE getContext(d, hit.channel_id, hit.id,
                                                       contextWindow) ]
                  IN  AskLoop(d, hits, i + 1, contextWindow,
                              [ map     |-> [k \in DOMAIN ctx.map \cup {key} |->
                                                IF k = key THEN entry ELSE ctx.map[k]],
                                fetched |-> Append(ctx.fetched, key) ])

\* hits.map(h => ({ id, channel, guild, user, content, thread_id, created_at }))
AskHit(h) ==
    [ id         |-> h.id,
      channel    |-> h.channel_name,
      guild      |-> h.guild_name,
      user       |-> OrElse(h.user_display_name, h.user_name),
      content    |-> h.content,
      thread_id  |-> h.thread_id,
      created_at |-> h.created_at ]

\* getStats(db)
getStats(d) ==
    [ messages |-> Len(d.messages),
      channels |-> Cardinality(DOMAIN d.channels),
      users    |-> Cardinality(DOMAIN d.users),
      guilds   |-> Cardinality(DOMAIN d.guilds),
      threads  |-> Cardinality({d.messages[i].thread_id : i \in 1..Len(d.messages)}
                               \ {Null}) ]

\* The store of a process that answers questions; no query has been made.
AskInit ==
    /\ handle = Null /\ files = {} /\ log = <<>>
    /\ \E n \in 0..MaxAskSize :
          db = StoreAll(StoreInitDb, Timeline(n, MaxOtherSize, FALSE, FALSE), 1)
    /\ now = 1
    /\ qry = NoQuery
    /\ clock = 0 /\ next = 0 /\ callers = <<>> /\ grants = <<>>
    /\ pm = <<>>
    /\ remote = <<>> /\ imp = <<>> /\ runs = <<>>
    /\ hist = <<>> /\ tasks = <<>> /\ calls = {}

\* ask(question, opts) is called and runs to its return: search with the
\* limit { limit: topK, ...opts } (no token: [] at once; otherwise the
\* matching rows in the order of the index, cut at the limit), the loop
\* over the hits, and the result object. `ranked` keeps the whole order
\* the index gave the matching rows.
AskCall ==
    /\ qry = NoQuery
    /\ \E question \in AskQuestions, opts \in AskOpts :
          LET topK          == Coalesce(opts.topK, 5)
              contextWindow == Coalesce(opts.contextWindow, 6)
              limit         == SpreadLimit(topK, opts)
              tokens        == Sanitize(question)
          IN  \E ranked \in IF NoTokens(tokens) THEN {<<>>}
                            ELSE Rankings(MatchQuery(db, tokens)) :
                 LET found == [i \in 1..Min(limit, Len(ranked)) |-> SearchRow(db, ranked[i])]
                     ctx   == AskLoop(db, found, 1, contextWindow,
                                      [map |-> <<>>, fetched |-> <<>>])
                 IN  qry' = [ op            |-> "ask",
                              query         |-> question,
                              topK          |-> topK,
                              contextWindow |-> contextWindow,
                              ranked        |-> [i \in DOMAIN ranked |-> db.messages[ranked[i]].id],
                              hits          |-> [i \in DOMAIN found |-> AskHit(found[i])],
                              context       |-> ctx.map,
                              fetched       |-> ctx.fetched,
                              stats         |-> getStats(db) ]
    /\ UNCHANGED <<storeVars, limiterVars, pmapVars, importVars, historyVars, handleVars>>

\* The caller has taken the answer.
AskReturn ==
    /\ qry # NoQuery
    /\ qry' = NoQuery
    /\ UNCHANGED <<storeVars, limiterVars, pmapVars, importVars, historyVars, handleVars>>

AskNext ==
    \/ AskCall
    \/ AskReturn

SpecAsk == AskInit /\ [][AskNext]_vars

\* The thread ids of the hits that have one, and the hits that have none.
ThreadsOfHits == {qry.hits[i].thread_id : i \in DOMAIN qry.hits} \ {Null}
PlainHits == {i \in DOMAIN qry.hits : qry.hits[i].thread_id = Null}

\* The hits are the first ones of the order search ranked the matches in.
InRankOrder == \A i \in DOMAIN qry.hits : qry.hits[i].id = qry.ranked[i]

\* contextMap holds one entry of kind thread with the full thread per
\* thread id of the hits, one entry of kind context with the context
\* window per hit without thread id, and nothing else; each was fetched
\* once.
ContextPerKey ==
    /\ DOMAIN qry.context =
          {<<"thread", t>> : t \in ThreadsOfHits}
          \cup {<<"context", RowOf(db, qry.hits[i].id).channel_id, qry.hits[i].id>>
                   : i \in PlainHits}
    /\ \A t \in ThreadsOfHits :
          /\ qry.context[<<"thread", t>>].type = "thread"
          /\ qry.context[<<"thread", t>>].messages = getThread(db, t)
    /\ \A i \in PlainHits :
          LET c == RowOf(db, qry.hits[i].id).channel_id
              e == qry.context[<<"context", c, qry.hits[i].id>>]
          IN  /\ e.type = "context"
              /\ e.messages = getContext(db, c, qry.hits[i].id, qry.contextWindow)
    /\ Len(qry.fetched) = Cardinality(ThreadsOfHits) + Cardinality(PlainHits)
    /\ Range(qry.fetched) = DOMAIN qry.context

\* C36: ask returns at most topK hits, in the order search ranked them;
\* its context mapping holds exactly one entry per distinct thread id among
\* the hits that have one (the full thread, fetched once) and one entry per
\* hit without a thread id (its context window); a question with no token
\* gives no hit and an empty mapping.
C36_AskShape ==
    qry.op = "ask" =>
       /\ Len(qry.hits) <= qry.topK
       /\ InRankOrder
       /\ ContextPerKey
       /\ NoTokens(Sanitize(qry.query)) => qry.hits = <<>> /\ DOMAIN qry.context = {}

-----------------------------------------------------------------------------
(* SpecHandle: the process-wide store handle (getDb, closeDb) and the      *)
(* credential check of importHistory                                       *)

\* The calls of one process that are followed.
MaxLogLen == 4

\* './discord-agent.db', the path used when no path is given (DATABASE_PATH
\* is not set).
DefaultPath == 3

\* The path arguments: none, or one of two paths.
DbPaths == {Null, 1, 2}

\* path.resolve(dbPath || process.env.DATABASE_PATH || './discord-agent.db')
Resolved(dbPath) == IF dbPath # Null THEN dbPath ELSE DefaultPath

\* A handle is named by the position in the log of the call that opened
\* it; the path it was opened at is that call's argument.
PathOf(h) == Resolved(log[h].dbPath)

\* Mutant of getDb: the cached handle is returned only for its own path.
getDb_ByPath(dbPath) ==
    IF handle # Null /\ PathOf(handle) = Resolved(dbPath)
    THEN [handle |-> handle, files |-> files]
    ELSE [handle |-> Len(log) + 1, files |-> files \cup {Resolved(dbPath)}]

\* getDb(dbPath): `if (_db) return _db`; otherwise new Database(resolved)
\* opens the file, creating it when it does not exist, migrate() creates
\* the tables, and the new handle is kept in _db. The value of _db and the
\* files after the call; the call returns _db.
getDb(dbPath) ==
    IF handle # Null
    THEN [handle |-> handle, files |-> files]
    ELSE [handle |-> Len(log) + 1, files |-> files \cup {Resolved(dbPath)}]

\* The process has started: _db is null, no database file exists.
HandleInit ==
    /\ handle = Null /\ files = {} /\ log = <<>>
    /\ db = EmptyDb /\ now = 1
    /\ clock = 0 /\ next = 0 /\ callers = <<>> /\ grants = <<>>
    /\ pm = <<>>
    /\ remote = <<>> /\ imp = <<>> /\ runs = <<>>
    /\ hist = <<>> /\ tasks = <<>> /\ calls = {} /\ qry = NoQuery

\* getDb(dbPath) is called.
GetDb ==
    /\ Len(log) < MaxLogLen
    /\ \E dbPath \in DbPaths : \E got \in {getDb(dbPath)} :
          /\ handle' = got.handle
          /\ files' = got.files
          /\ log' = Append(log, [op |-> "getDb", dbPath |-> dbPath,
                                 returned |-> got.handle])
    /\ UNCHANGED <<storeVars, limiterVars, pmapVars, importVars, historyVars, queryVars>>

\* closeDb(): if (_db) { _db.close(); _db = null; }
CloseDb ==
    /\ Len(log) < MaxLogLen
    /\ handle' = Null
    /\ log' = Append(log, [op |-> "closeDb", dbPath |-> Null, returned |-> Null])
    /\ UNCHANGED <<files, storeVars, limiterVars, pmapVars, importVars, historyVars, queryVars>>

\* importHistory(opts) is called with no client and no token, and none in
\* the environment: getDb(opts.dbPath) runs first, then the options are
\* read, the limiter made, and the missing token throws.
ImportHistoryNoToken ==
    /\ Len(log) < MaxLogLen
    /\ \E dbPath \in DbPaths : \E got \in {getDb(dbPath)} :
          /\ handle' = got.handle
          /\ files' = got.files
          /\ log' = Append(log, [op |-> "importHistory", dbPath |-> dbPath,
                                 returned |-> Null])
    /\ UNCHANGED <<storeVars, limiterVars, pmapVars, importVars, historyVars, queryVars>>

HandleNext ==
    \/ GetDb
    \/ CloseDb
    \/ ImportHistoryNoToken

SpecHandle == HandleInit /\ [][HandleNext]_vars

\* The step is a call of this operation.
Called(op) == Len(log') = Len(log) + 1 /\ log'[Len(log')].op = op

\* C37: importHistory called with neither client nor token fails before
\* any mutation of persisted state: the call opens no store handle,
\* creates no database file and writes no row.
C37_FailsBeforeMutation ==
    [][Called("importHistory") => handle' = handle /\ files' = files /\ db' = db]_vars

\* The positions of the log at which getDb and closeDb were called.
GetDbCalls == {k \in DOMAIN log : log[k].op = "getDb"}
CloseDbCalls == {k \in DOMAIN log : log[k].op = "closeDb"}

\* C38: the store handle is opened once and kept: two getDb calls with no
\* closeDb between them return the same handle, whatever paths they pass; a
\* getDb call after a closeDb returns a handle that no getDb call before
\* that closeDb returned; and closeDb with no open handle changes nothing.
C38_OneHandle ==
    /\ [](\A i, j \in GetDbCalls :
             /\ (i < j /\ CloseDbCalls \cap i..j = {})
                   => log[i].returned = log[j].returned /\ log[j].returned # Null
             /\ (i < j /\ CloseDbCalls \cap i..j # {})
                   => log[i].returned # log[j].returned)
    /\ [][Called("closeDb") /\ handle = Null
             => handle' = Null /\ files' = files /\ db' = db]_vars

\* getDb was called with one path and again with another, closeDb was
\* called, and a third getDb call with the first path followed.
C38_Witness ==
    /\ Len(log) = 4
    /\ log[1].op = "getDb" /\ log[2].op = "getDb" /\ log[1].dbPath # log[2].dbPath
    /\ log[3].op = "closeDb"
    /\ log[4].op = "getDb" /\ log[4].dbPath = log[1].dbPath
    /\ handle = 4

\* ---------------------------------------------------------------------
\* A failed member fetch (importHistory, member sync)
\* ---------------------------------------------------------------------

\* The parallelMap calls made for guild g.
FansOf(g) == {f \in DOMAIN hist.fans : hist.fans[f].guild = g}

\* C39: when the bulk member fetch of a guild fails, the members of the
\* local cache are upserted and the run goes on with that guild: the step
\* of the failure leads to the guild's channel fetch, the run does not
\* throw, and when it has returned the guild's channels, role and emoji are
\* stored and its channel, thread and pin imports have all been made.
C39_MemberFailureDegrades ==
    /\ [](\A i \in DOMAIN RemoteGuilds :
             LET g == RemoteGuilds[i]
             IN  <<"members", g>> \in hist.failed =>
                    /\ \A u \in Range(CachedMembers(g)) :
                          Has(db.members, <<g, u>>) /\ Has(db.users, u)
                    /\ hist.pc # "thrown"
                    /\ hist.pc = "returned" =>
                          /\ Range(GuildChannels(g)) \subseteq DOMAIN db.channels
                          /\ Has(db.roles, RoleObj(g).id)
                          /\ Has(db.emoji, EmojiObj(g).id)
                          /\ Cardinality(FansOf(g)) = FansPerGuild
                          /\ \A f \in FansOf(g) : hist.fans[f].idx = Len(hist.fans[f].items))
    /\ [][\A i \in DOMAIN RemoteGuilds :
             <<"members", RemoteGuilds[i]>> \in hist'.failed \ hist.failed
                => hist'.pc = "channels" /\ hist.gi = i /\ hist'.gi = i]_vars

\* The run has returned after the member fetch of guild 1 failed: the
\* cached member is stored, the member only the fetch knows is not, and
\* the pinned message of channel 1 is stored as a pin.
C39_Witness ==
    /\ hist.pc = "returned"
    /\ <<"members", 1>> \in hist.failed
    /\ Has(db.members, <<1, 1>>)
    /\ ~Has(db.members, <<1, 2>>)
    /\ DOMAIN db.pins # {}

====
